---- MODULE Spec2Model ----
(***************************************************************************)
(* A model of the transform / correlate / aggregate stage of the           *)
(* Spotify-YouTube ETL pipeline (src/src/etl/transform.py).                *)
(*                                                                         *)
(* Python values are modelled as tagged records with a field k naming the  *)
(* Python type; text is a sequence of one-character strings.  A raised     *)
(* exception is the value Raise(e).  A dict is a TLA+ function from keys   *)
(* to values whose DOMAIN is the set of keys present.  Floats that the     *)
(* code computes from integers are kept as exact reduced fractions.        *)
(***************************************************************************)
EXTENDS Integers, Sequences, FiniteSets, TLC

VARIABLES
    raw_tracks,         \* transform_spotify_tracks: the raw tracks given
    transformed_tracks, \* transform_spotify_tracks: the list being built
    tracks_taken,       \* transform_spotify_tracks: raw tracks the loop has taken
    raw_videos,         \* transform_youtube_videos: the raw videos given
    transformed_videos, \* transform_youtube_videos: the list being built
    videos_taken,       \* transform_youtube_videos: raw videos the loop has taken
    spotify_tracks,     \* correlate: the normalized tracks given
    youtube_videos,     \* correlate / aggregate: the normalized videos given
    correlations,       \* correlate: the list being built
    trk,                \* correlate: number of tracks the for loop has taken
    related_videos,     \* correlate: the Matcher's result for the last track
    regional_data,      \* aggregate: the dict of regions, in insertion order
    aggregated_data,    \* aggregate: the list being built
    vid,                \* aggregate: number of videos the first loop has taken
    reg,                \* aggregate: number of regions the second loop has taken
    agg_pc,             \* aggregate: "idle", "fold", "done", "raised"
    config,             \* main.py: the pipeline's configuration
    extracted_data,     \* main.py: what extract_all_data returned
    transformed_data,   \* main.py: the dict _run_transformation builds
    loaded,             \* load.py: the collections load_all_data was given
    stage,              \* main.py: the stage run_full_pipeline is about to run
    pipeline_result     \* main.py: the result dict run_full_pipeline returns

normVars == <<raw_tracks, transformed_tracks, tracks_taken>>
videoVars == <<raw_videos, transformed_videos, videos_taken>>
corrVars == <<spotify_tracks, correlations, trk, related_videos>>
aggVars == <<regional_data, aggregated_data, vid, reg, agg_pc>>
pipeVars == <<config, extracted_data, transformed_data, loaded, stage, pipeline_result>>
vars == <<normVars, videoVars, corrVars, youtube_videos, aggVars, pipeVars>>

-----------------------------------------------------------------------------
(* Generic helpers *)

Min(a, b) == IF a <= b THEN a ELSE b
Max(a, b) == IF a >= b THEN a ELSE b
Abs(a) == IF a < 0 THEN -a ELSE a

RECURSIVE GCD(_, _)
GCD(a, b) == IF b = 0 THEN a ELSE GCD(b, a % b)

\* All sequences over S of length at most n.
SeqsUpTo(S, n) == UNION { [1..m -> S] : m \in 0..n }

Take(s, n) == SubSeq(s, 1, Min(n, Len(s)))

-----------------------------------------------------------------------------
(* Python values *)

PyNone == [k |-> "none"]
PyStr(s) == [k |-> "str", s |-> s]
PyInt(n) == [k |-> "int", n |-> n]
PyBool(b) == [k |-> "bool", b |-> b]
PyList(l) == [k |-> "list", l |-> l]
\* A float that is the exact quotient n/d, d > 0, kept in lowest terms.
PyFloat(n, d) ==
    LET g == GCD(Abs(n), d) IN [k |-> "float", n |-> n \div g, d |-> d \div g]
\* float('inf')
PyInf == [k |-> "inf"]
Raise(e) == [k |-> "raise", e |-> e]

\* A dict (a function from its keys) is never a raised exception.
IsRaise(v) == "k" \in DOMAIN v /\ v.k = "raise"

FLess(x, y) == x.n * y.d < y.n * x.d
FLeq(x, y) == x.n * y.d <= y.n * x.d

\* dict.get(key, default)
Get(d, key, default) == IF key \in DOMAIN d THEN d[key] ELSE default

\* d[key]
Item(d, key) == IF key \in DOMAIN d THEN d[key] ELSE Raise("KeyError")

\* bool(v)
Truthy(v) ==
    CASE v.k = "none" -> FALSE
      [] v.k = "str" -> v.s # <<>>
      [] v.k = "int" -> v.n # 0
      [] v.k = "bool" -> v.b
      [] v.k = "list" -> v.l # <<>>
      [] v.k = "float" -> v.n # 0
      [] v.k = "inf" -> TRUE

UpperLetters == <<"A", "B", "C", "D", "E", "F", "G", "H", "I", "J", "K", "L", "M",
                  "N", "O", "P", "Q", "R", "S", "T", "U", "V", "W", "X", "Y", "Z">>
LowerLetters == <<"a", "b", "c", "d", "e", "f", "g", "h", "i", "j", "k", "l", "m",
                  "n", "o", "p", "q", "r", "s", "t", "u", "v", "w", "x", "y", "z">>

\* str.lower() on one character.
LowerChar(c) ==
    IF \E i \in 1..26 : UpperLetters[i] = c
    THEN LowerLetters[CHOOSE i \in 1..26 : UpperLetters[i] = c]
    ELSE c

LowerText(s) == [i \in 1..Len(s) |-> LowerChar(s[i])]

\* v.lower(): only str has the method.
Lower(v) == IF v.k = "str" THEN PyStr(LowerText(v.s)) ELSE Raise("AttributeError")

\* The decimal digits of n >= 0.
RECURSIVE Digits(_)
Digits(n) ==
    LET d == <<"0", "1", "2", "3", "4", "5", "6", "7", "8", "9">>[(n % 10) + 1]
    IN  IF n < 10 THEN <<d>> ELSE Digits(n \div 10) \o <<d>>

\* The text an f-string puts for {v}.
Format(v) ==
    CASE v.k = "str" -> v.s
      [] v.k = "none" -> <<"N", "o", "n", "e">>
      [] v.k = "int" -> IF v.n < 0 THEN <<"-">> \o Digits(-v.n) ELSE Digits(v.n)
      [] v.k = "bool" -> IF v.b THEN <<"T", "r", "u", "e">>
                         ELSE <<"F", "a", "l", "s", "e">>
      [] v.k = "raise" -> <<>>

\* x in y, for two texts.
IsSubstring(x, y) ==
    \E i \in 0..(Len(y) - Len(x)) : SubSeq(y, i + 1, i + Len(x)) = x

-----------------------------------------------------------------------------
(* difflib.SequenceMatcher(None, a, b).ratio(), for texts shorter than the  *)
(* 200 characters at which difflib's automatic junk heuristic starts.       *)

\* All (i, j, n) with a[i..i+n-1] = b[j..j+n-1], n >= 1.
MatchingBlocks(a, b) ==
    { blk \in (1..Len(a)) \X (1..Len(b)) \X (1..Min(Len(a), Len(b))) :
        /\ blk[1] + blk[3] - 1 <= Len(a)
        /\ blk[2] + blk[3] - 1 <= Len(b)
        /\ SubSeq(a, blk[1], blk[1] + blk[3] - 1)
             = SubSeq(b, blk[2], blk[2] + blk[3] - 1) }

\* find_longest_match: the longest block; of those the one that starts
\* earliest in a; of those the one that starts earliest in b.
find_longest_match(a, b) ==
    LET blocks == MatchingBlocks(a, b)
    IN  IF blocks = {} THEN <<1, 1, 0>>
        ELSE CHOOSE x \in blocks :
               \A y \in blocks :
                  \/ x[3] > y[3]
                  \/ x[3] = y[3] /\ x[1] < y[1]
                  \/ x[3] = y[3] /\ x[1] = y[1] /\ x[2] <= y[2]

\* get_matching_blocks: the longest block, then the same to its left and to
\* its right; the value is the total size of the blocks.
RECURSIVE matches(_, _)
matches(a, b) ==
    IF a = <<>> \/ b = <<>> THEN 0
    ELSE LET blk == find_longest_match(a, b)
             i == blk[1]
             j == blk[2]
             n == blk[3]
         IN  IF n = 0 THEN 0
             ELSE n + matches(SubSeq(a, 1, i - 1), SubSeq(b, 1, j - 1))
                    + matches(SubSeq(a, i + n, Len(a)), SubSeq(b, j + n, Len(b)))

\* ratio(): 2.0 * matches / length, and 1.0 when both texts are empty.
ratio(a, b) ==
    IF Len(a) + Len(b) = 0 THEN PyFloat(1, 1)
    ELSE PyFloat(2 * matches(a, b), Len(a) + Len(b))

-----------------------------------------------------------------------------
(* Matcher: _calculate_similarity and _find_related_videos *)

\* The minimum score of _find_related_videos, 0.3.
Threshold == PyFloat(3, 10)

\* related[:5]
TopK == 5

\* _calculate_similarity comparing the search metadata without lower().
calculate_similarity_cased(track, video) ==
    LET track_name == Lower(Get(track, "name", PyStr(<<>>)))
        artist_name == Lower(Get(track, "artist_name", PyStr(<<>>)))
        video_title == Lower(Get(video, "title", PyStr(<<>>)))
        has_search == /\ Truthy(Get(video, "search_artist", PyNone))
                      /\ Truthy(Get(video, "search_track", PyNone))
        name_similarity == ratio(track_name.s, video_title.s)
        artist_in_title == IF IsSubstring(artist_name.s, video_title.s) THEN 1 ELSE 0
    IN  IF /\ has_search
           /\ Get(video, "search_artist", PyStr(<<>>)) = Get(track, "artist_name", PyStr(<<>>))
           /\ Get(video, "search_track", PyStr(<<>>)) = Get(track, "name", PyStr(<<>>))
        THEN PyFloat(1, 1)
        ELSE PyFloat(7 * name_similarity.n + 3 * artist_in_title * name_similarity.d,
                     10 * name_similarity.d)

_calculate_similarity(track, video) ==
    LET track_name == Lower(Get(track, "name", PyStr(<<>>)))
        artist_name == Lower(Get(track, "artist_name", PyStr(<<>>)))
        video_title == Lower(Get(video, "title", PyStr(<<>>)))
        has_search == /\ Truthy(Get(video, "search_artist", PyNone))
                      /\ Truthy(Get(video, "search_track", PyNone))
        search_artist == Lower(Get(video, "search_artist", PyStr(<<>>)))
        search_track == Lower(Get(video, "search_track", PyStr(<<>>)))
        name_similarity == ratio(track_name.s, video_title.s)
        artist_in_title == IF IsSubstring(artist_name.s, video_title.s) THEN 1 ELSE 0
    IN  IF IsRaise(track_name) \/ IsRaise(artist_name) \/ IsRaise(video_title)
        THEN Raise("AttributeError")
        ELSE IF has_search /\ (IsRaise(search_artist) \/ IsRaise(search_track))
        THEN Raise("AttributeError")
        ELSE IF has_search /\ search_artist = artist_name /\ search_track = track_name
        THEN PyFloat(1, 1)
        ELSE PyFloat(7 * name_similarity.n + 3 * artist_in_title * name_similarity.d,
                     10 * name_similarity.d)

\* list.sort(key=lambda x: x[1], reverse=True): a stable sort, so entries of
\* equal score keep their order.
RECURSIVE SortByScoreDesc(_)
SortByScoreDesc(s) ==
    IF s = <<>> THEN <<>>
    ELSE LET rest == SortByScoreDesc(SubSeq(s, 1, Len(s) - 1))
             x == s[Len(s)]
             p == Cardinality({i \in 1..Len(rest) : FLeq(x[2], rest[i][2])})
         IN  SubSeq(rest, 1, p) \o <<x>> \o SubSeq(rest, p + 1, Len(rest))

\* _find_related_videos with the threshold test written >= instead of >.
find_related_videos_geq(track, videos) ==
    LET scored == [i \in 1..Len(videos) |->
                     <<videos[i], _calculate_similarity(track, videos[i])>>]
        related == SelectSeq(scored, LAMBDA x : FLeq(Threshold, x[2]))
    IN  PyList(Take(SortByScoreDesc(related), TopK))

_find_related_videos(track, videos) ==
    LET track_name == Lower(Get(track, "name", PyStr(<<>>)))
        artist_name == Lower(Get(track, "artist_name", PyStr(<<>>)))
        scored == [i \in 1..Len(videos) |->
                     <<videos[i], _calculate_similarity(track, videos[i])>>]
        related == SelectSeq(scored, LAMBDA x : FLess(Threshold, x[2]))
    IN  IF IsRaise(track_name) \/ IsRaise(artist_name)
        THEN Raise("AttributeError")
        ELSE IF \E i \in 1..Len(scored) : IsRaise(scored[i][2])
        THEN Raise("AttributeError")
        ELSE PyList(Take(SortByScoreDesc(related), TopK))

-----------------------------------------------------------------------------
(* Correlator: correlate_spotify_youtube_data *)

\* The bins with their lower boundaries left out.
categorize_correlation_strength_exclusive(similarity_score) ==
    IF FLess(PyFloat(9, 10), similarity_score) THEN "very_strong"
    ELSE IF FLess(PyFloat(7, 10), similarity_score) THEN "strong"
    ELSE IF FLess(PyFloat(5, 10), similarity_score) THEN "moderate"
    ELSE IF FLess(PyFloat(3, 10), similarity_score) THEN "weak"
    ELSE "very_weak"

\* Lines 696-707.
_categorize_correlation_strength(similarity_score) ==
    IF FLeq(PyFloat(9, 10), similarity_score) THEN "very_strong"
    ELSE IF FLeq(PyFloat(7, 10), similarity_score) THEN "strong"
    ELSE IF FLeq(PyFloat(5, 10), similarity_score) THEN "moderate"
    ELSE IF FLeq(PyFloat(3, 10), similarity_score) THEN "weak"
    ELSE "very_weak"

\* The similarity without the max(0.0, ...) of line 717.
duration_similarity_unclamped(duration1, duration2) ==
    IF duration1 = 0 \/ duration2 = 0 THEN PyFloat(0, 1)
    ELSE LET diff == Abs(duration1 - duration2)
             max_duration == Max(duration1, duration2)
             num == IF max_duration > 0 THEN max_duration - diff
                    ELSE diff - max_duration
         IN  PyFloat(num, Abs(max_duration))

\* Lines 709-717.  duration1 and duration2 are ints.
_calculate_duration_similarity(duration1, duration2) ==
    IF duration1 = 0 \/ duration2 = 0 THEN PyFloat(0, 1)
    ELSE LET diff == Abs(duration1 - duration2)
             max_duration == Max(duration1, duration2)
             \* 1.0 - diff / max_duration, with a positive denominator
             num == IF max_duration > 0 THEN max_duration - diff
                    ELSE diff - max_duration
             val == PyFloat(num, Abs(max_duration))
         IN  IF FLess(val, PyFloat(0, 1)) THEN PyFloat(0, 1) ELSE val

\* a - b and abs(a - b) are modelled for ints; any other operand is a TypeError.
AbsDiff(a, b) ==
    IF a.k = "int" /\ b.k = "int" THEN PyInt(Abs(a.n - b.n)) ELSE Raise("TypeError")

DurationSimilarity(a, b) ==
    IF a.k = "int" /\ b.k = "int" THEN _calculate_duration_similarity(a.n, b.n)
    ELSE Raise("TypeError")

\* The dict built for one (video, similarity_score) of a track, lines 306-341;
\* a missing key raises KeyError out of the dict display.  Of the fields the
\* timestamps, the constant data_source and the view/popularity ratios are
\* left out.
BuildCorrelation(track, video, similarity_score) ==
    LET fields == [correlation_id |->
                       PyStr(Format(Item(track, "track_id")) \o <<"_">>
                             \o Format(Item(video, "video_id"))),
                   track_id |-> Item(track, "track_id"),
                   video_id |-> Item(video, "video_id"),
                   spotify_track_name |-> Item(track, "name"),
                   spotify_artist_name |-> Item(track, "artist_name"),
                   spotify_popularity |-> Item(track, "popularity"),
                   spotify_duration_seconds |-> Item(track, "duration_seconds"),
                   youtube_title |-> Item(video, "title"),
                   youtube_channel |-> Item(video, "channel_title"),
                   youtube_view_count |-> Item(video, "view_count"),
                   youtube_like_count |-> Item(video, "like_count"),
                   youtube_duration_seconds |-> Item(video, "duration_seconds"),
                   similarity_score |-> similarity_score,
                   correlation_strength |->
                       PyStr(_categorize_correlation_strength(similarity_score)),
                   duration_difference_seconds |->
                       AbsDiff(Item(track, "duration_seconds"),
                               Item(video, "duration_seconds")),
                   duration_similarity |->
                       DurationSimilarity(Item(track, "duration_seconds"),
                                          Item(video, "duration_seconds")),
                   platform_consistency |->
                       DurationSimilarity(Get(track, "duration_seconds", PyInt(0)),
                                          Get(video, "duration_seconds", PyInt(0)))]
        needed_track == {"track_id", "name", "artist_name", "popularity",
                         "duration_seconds"}
        needed_video == {"video_id", "title", "channel_title", "view_count",
                         "like_count", "duration_seconds"}
    IN  IF ~(needed_track \subseteq DOMAIN track /\ needed_video \subseteq DOMAIN video)
        THEN Raise("KeyError")
        ELSE IF IsRaise(fields.duration_difference_seconds)
        THEN Raise("TypeError")
        ELSE fields

\* The videos no earlier track was correlated with.
CandidateVideosUnmatched(i) ==
    SelectSeq(youtube_videos,
              LAMBDA v : \A n \in 1..Len(correlations) :
                            correlations[n].video_id # v.video_id)

\* The videos handed to the Matcher for the track at position i: always the
\* whole collection.
CandidateVideos(i) == youtube_videos

\* The inner for loop stopping after the best match.
AppendBestCorrelation(acc, track, pairs) ==
    IF pairs = <<>> THEN [out |-> acc, raised |-> FALSE]
    ELSE LET c == BuildCorrelation(track, pairs[1][1], pairs[1][2])
         IN  IF IsRaise(c) THEN [out |-> acc, raised |-> TRUE]
             ELSE [out |-> Append(acc, c), raised |-> FALSE]

\* The inner for loop: one dict appended per pair, until one raises.
RECURSIVE AppendCorrelations(_, _, _)
AppendCorrelations(acc, track, pairs) ==
    IF pairs = <<>> THEN [out |-> acc, raised |-> FALSE]
    ELSE LET c == BuildCorrelation(track, pairs[1][1], pairs[1][2])
         IN  IF IsRaise(c) THEN [out |-> acc, raised |-> TRUE]
             ELSE AppendCorrelations(Append(acc, c), track, Tail(pairs))

\* One iteration of the for loop over spotify_tracks, with its try/except.
CorrelateTrack ==
    /\ trk < Len(spotify_tracks)
    /\ \E found \in {_find_related_videos(spotify_tracks[trk + 1],
                                           CandidateVideos(trk + 1))} :
          /\ related_videos' = found
          /\ correlations' =
                IF IsRaise(found) THEN correlations
                ELSE AppendCorrelations(correlations, spotify_tracks[trk + 1],
                                        found.l).out
    /\ trk' = trk + 1
    /\ UNCHANGED <<spotify_tracks, youtube_videos, normVars, videoVars, aggVars>>
    /\ UNCHANGED pipeVars


-----------------------------------------------------------------------------
(* Normalizer helpers: _clean_text, _safe_int, _parse_date, ...            *)

IsSpace(c) == c \in {" ", "\t", "\n"}
IsDigit(c) == c \in {"0", "1", "2", "3", "4", "5", "6", "7", "8", "9"}
DigitVal(c) == CHOOSE n \in 0..9 : Digits(n) = <<c>>

\* str.strip()
RECURSIVE LStrip(_)
LStrip(s) == IF s # <<>> /\ IsSpace(s[1]) THEN LStrip(Tail(s)) ELSE s
RECURSIVE RStrip(_)
RStrip(s) ==
    IF s # <<>> /\ IsSpace(s[Len(s)]) THEN RStrip(SubSeq(s, 1, Len(s) - 1)) ELSE s
Strip(s) == RStrip(LStrip(s))

\* re.sub(r'\s+', ' ', s): every run of whitespace becomes one space.
RECURSIVE CollapseSpaces(_)
CollapseSpaces(s) ==
    IF s = <<>> THEN <<>>
    ELSE IF IsSpace(s[1])
         THEN <<" ">> \o CollapseSpaces(LStrip(s))
         ELSE <<s[1]>> \o CollapseSpaces(Tail(s))

_clean_text(text) ==
    IF ~Truthy(text) THEN PyStr(<<>>)
    ELSE IF text.k # "str" THEN Raise("AttributeError")
    ELSE PyStr(CollapseSpaces(Strip(text.s)))

\* The value of a nonempty run of decimal digits.
RECURSIVE DigitsValue(_)
DigitsValue(s) ==
    IF s = <<>> THEN 0
    ELSE 10 * DigitsValue(SubSeq(s, 1, Len(s) - 1)) + DigitVal(s[Len(s)])

AllDigits(s) == s # <<>> /\ \A i \in 1..Len(s) : IsDigit(s[i])

\* int(v): of a text, the stripped text must be an optional sign and digits
\* (the texts of the model hold no underscore between digits).
IntOf(v) ==
    CASE v.k = "int" -> PyInt(v.n)
      [] v.k = "bool" -> PyInt(IF v.b THEN 1 ELSE 0)
      [] v.k = "float" ->
            PyInt(IF v.n >= 0 THEN v.n \div v.d ELSE -((-v.n) \div v.d))
      [] v.k = "inf" -> Raise("OverflowError")
      [] v.k = "str" ->
            LET t == Strip(v.s)
                signed == t # <<>> /\ t[1] \in {"+", "-"}
                body == IF signed THEN Tail(t) ELSE t
            IN  IF AllDigits(body)
                THEN PyInt(IF signed /\ t[1] = "-" THEN -DigitsValue(body)
                           ELSE DigitsValue(body))
                ELSE Raise("ValueError")
      [] v.k \in {"none", "list"} -> Raise("TypeError")

\* A conversion that reports a value it cannot convert as -1.
safe_int_sentinel(value) ==
    IF value = PyNone THEN PyInt(0)
    ELSE LET r == IntOf(value)
         IN  IF IsRaise(r) /\ r.e \in {"ValueError", "TypeError"} THEN PyInt(-1)
             ELSE r

\* Only ValueError and TypeError are caught; an OverflowError leaves.
_safe_int(value) ==
    IF value = PyNone THEN PyInt(0)
    ELSE LET r == IntOf(value)
         IN  IF IsRaise(r) /\ r.e \in {"ValueError", "TypeError"} THEN PyInt(0)
             ELSE r

\* len(v)
LenOf(v) ==
    CASE v.k = "str" -> PyInt(Len(v.s))
      [] v.k = "list" -> PyInt(Len(v.l))
      [] OTHER -> Raise("TypeError")

\* The items a for loop or comprehension takes from v.
IterOf(v) ==
    CASE v.k = "str" -> PyList([i \in 1..Len(v.s) |-> PyStr(<<v.s[i]>>)])
      [] v.k = "list" -> v
      [] OTHER -> Raise("TypeError")

\* v[:n] of a text or a list.
Prefix(v, n) ==
    CASE v.k = "str" -> PyStr(Take(v.s, n))
      [] v.k = "list" -> PyList(Take(v.l, n))
      [] OTHER -> Raise("TypeError")

\* The length of the prefix date_str[:10].
DateLen == 10

\* len() of a number or a flag raises inside the try, which yields "".  A
\* list of 4 or 7 items would come out of the f-strings as its repr, which
\* is not modelled: the model holds no such date.
_parse_date(date_str) ==
    CASE ~Truthy(date_str) -> PyStr(<<>>)
      [] Truthy(date_str) /\ date_str.k \in {"int", "bool", "float", "inf"} -> PyStr(<<>>)
      [] Truthy(date_str) /\ date_str.k = "list" /\ Len(date_str.l) \notin {4, 7} ->
            Prefix(date_str, DateLen)
      [] Truthy(date_str) /\ date_str.k = "str" ->
            IF Len(date_str.s) = 4
            THEN PyStr(date_str.s \o <<"-", "0", "1", "-", "0", "1">>)
            ELSE IF Len(date_str.s) = 7
            THEN PyStr(date_str.s \o <<"-", "0", "1">>)
            ELSE Prefix(date_str, DateLen)

\* s.replace(old, '') for a text old of two characters.
RECURSIVE RemoveAll(_, _)
RemoveAll(s, old) ==
    IF Len(s) < Len(old) THEN s
    ELSE IF SubSeq(s, 1, Len(old)) = old THEN RemoveAll(SubSeq(s, Len(old) + 1, Len(s)), old)
    ELSE <<s[1]>> \o RemoveAll(Tail(s), old)

\* s.split('.')[0]
BeforeDot(s) ==
    IF \E i \in 1..Len(s) : s[i] = "."
    THEN SubSeq(s, 1, (CHOOSE i \in 1..Len(s) :
                          s[i] = "." /\ \A j \in 1..(i - 1) : s[j] # ".") - 1)
    ELSE s

\* 'T' in v raises for a number or a flag, and v.replace for a list: "".
_parse_datetime(datetime_str) ==
    IF ~Truthy(datetime_str) THEN PyStr(<<>>)
    ELSE IF datetime_str.k = "list"
    THEN IF \E i \in 1..Len(datetime_str.l) : datetime_str.l[i] = PyStr(<<"T">>)
         THEN PyStr(<<>>) ELSE datetime_str
    ELSE IF datetime_str.k # "str" THEN PyStr(<<>>)
    ELSE IF \E i \in 1..Len(datetime_str.s) : datetime_str.s[i] = "T"
    THEN PyStr(BeforeDot(RemoveAll(datetime_str.s, <<"Z">>)))
    ELSE datetime_str

\* re.search(r'(\d+)U', s) for a unit letter U: the leftmost run of digits
\* that U follows; the value is that of the run, or -1 without a match.
UnitValue(s, unit) ==
    LET starts == { i \in 1..Len(s) :
                      /\ IsDigit(s[i])
                      /\ \E j \in i..Len(s) :
                            /\ \A m \in i..j : IsDigit(s[m])
                            /\ j < Len(s) /\ s[j + 1] = unit }
    IN  IF starts = {} THEN -1
        ELSE LET i == CHOOSE x \in starts : \A y \in starts : x <= y
                 j == CHOOSE x \in i..Len(s) :
                         /\ \A m \in i..x : IsDigit(s[m])
                         /\ x < Len(s) /\ s[x + 1] = unit
             IN  DigitsValue(SubSeq(s, i, j))

\* A parse that reads the minutes and the seconds only.
parse_duration_without_hours(duration) ==
    IF ~Truthy(duration) THEN PyInt(0)
    ELSE IF duration.k # "str" THEN PyInt(0)
    ELSE LET d == RemoveAll(duration.s, <<"P", "T">>)
             minutes == UnitValue(d, "M")
             seconds == UnitValue(d, "S")
         IN  PyInt((IF minutes >= 0 THEN minutes * 60 ELSE 0)
                   + (IF seconds >= 0 THEN seconds ELSE 0))

_parse_duration_to_seconds(duration) ==
    IF ~Truthy(duration) THEN PyInt(0)
    ELSE IF duration.k # "str" THEN PyInt(0)
    ELSE LET d == RemoveAll(duration.s, <<"P", "T">>)
             hours == UnitValue(d, "H")
             minutes == UnitValue(d, "M")
             seconds == UnitValue(d, "S")
         IN  PyInt((IF hours >= 0 THEN hours * 3600 ELSE 0)
                   + (IF minutes >= 0 THEN minutes * 60 ELSE 0)
                   + (IF seconds >= 0 THEN seconds ELSE 0))

\* Bins whose lower bounds are exclusive.
categorize_popularity_above(popularity) ==
    IF popularity > 80 THEN "very_high"
    ELSE IF popularity > 60 THEN "high"
    ELSE IF popularity > 40 THEN "medium"
    ELSE IF popularity > 20 THEN "low"
    ELSE "very_low"

_categorize_popularity(popularity) ==
    IF popularity >= 80 THEN "very_high"
    ELSE IF popularity >= 60 THEN "high"
    ELSE IF popularity >= 40 THEN "medium"
    ELSE IF popularity >= 20 THEN "low"
    ELSE "very_low"

\* Bins whose upper bounds are inclusive.
categorize_duration_inclusive(duration_seconds) ==
    IF duration_seconds <= 60 THEN "very_short"
    ELSE IF duration_seconds <= 180 THEN "short"
    ELSE IF duration_seconds <= 300 THEN "medium"
    ELSE IF duration_seconds <= 600 THEN "long"
    ELSE "very_long"

_categorize_duration(duration_seconds) ==
    IF duration_seconds < 60 THEN "very_short"
    ELSE IF duration_seconds < 180 THEN "short"
    ELSE IF duration_seconds < 300 THEN "medium"
    ELSE IF duration_seconds < 600 THEN "long"
    ELSE "very_long"

_categorize_views(view_count) ==
    IF view_count >= 10000000 THEN "viral"
    ELSE IF view_count >= 1000000 THEN "very_popular"
    ELSE IF view_count >= 100000 THEN "popular"
    ELSE IF view_count >= 10000 THEN "moderate"
    ELSE "low"

-----------------------------------------------------------------------------
(* Normalizer: transform_spotify_tracks and transform_youtube_videos       *)

\* [self._clean_text(artist) for artist in v]
CleanEach(v) ==
    LET items == IterOf(v)
        cleaned == [i \in 1..Len(items.l) |-> _clean_text(items.l[i])]
    IN  IF IsRaise(items) THEN items
        ELSE IF \E i \in 1..Len(cleaned) : IsRaise(cleaned[i])
        THEN Raise("AttributeError")
        ELSE PyList(cleaned)

\* Some field of the dict d holds a raised exception.
AnyRaise(d) == \E f \in DOMAIN d : IsRaise(d[f])

\* The body of the try of transform_spotify_tracks for one raw track: the
\* transformed dict, or the exception raised.  Left out are the fields that
\* are copied as they come or coerced like one that is kept (album_id,
\* is_local, preview_url, external_urls, total_tracks, disc_number,
\* track_number, extraction metadata) and the timestamp transformed_at.
TransformTrack(track) ==
    LET popularity == _safe_int(Get(track, "popularity", PyInt(0)))
        duration_ms == _safe_int(Get(track, "duration_ms", PyInt(0)))
        artist_count == LenOf(Get(track, "artists", PyList(<<>>)))
        d == [track_id |-> Get(track, "track_id", PyStr(<<>>)),
              name |-> _clean_text(Get(track, "name", PyStr(<<>>))),
              artist_name |-> _clean_text(Get(track, "artist_name", PyStr(<<>>))),
              album_name |-> _clean_text(Get(track, "album_name", PyStr(<<>>))),
              artists |-> CleanEach(Get(track, "artists", PyList(<<>>))),
              popularity |-> popularity,
              duration_ms |-> duration_ms,
              duration_seconds |->
                  IF IsRaise(duration_ms) THEN duration_ms
                  ELSE PyInt(duration_ms.n \div 1000),
              explicit |-> PyBool(Truthy(Get(track, "explicit", PyBool(FALSE)))),
              release_date |-> _parse_date(Get(track, "release_date", PyStr(<<>>))),
              available_markets |-> Get(track, "available_markets", PyList(<<>>)),
              market_count |-> LenOf(Get(track, "available_markets", PyList(<<>>))),
              artist_count |-> artist_count,
              is_collaboration |->
                  IF IsRaise(artist_count) THEN artist_count
                  ELSE PyBool(artist_count.n > 1),
              name_length |-> LenOf(Get(track, "name", PyStr(<<>>))),
              artist_name_length |-> LenOf(Get(track, "artist_name", PyStr(<<>>)))]
    IN  IF AnyRaise(d) THEN Raise("Exception")
        ELSE [f \in DOMAIN d \cup {"popularity_category", "duration_category"} |->
                CASE f = "popularity_category" ->
                        PyStr(_categorize_popularity(d.popularity.n))
                  [] f = "duration_category" ->
                        PyStr(_categorize_duration(d.duration_seconds.n))
                  [] OTHER -> d[f]]

\* min(100, x) of a float x: x when x < 100, and else the int 100.
Min100(x) == IF FLess(x, PyFloat(100, 1)) THEN x ELSE PyInt(100)

\* video holds the ints view_count, like_count and comment_count.
_calculate_engagement_metrics(video) ==
    LET view_count == Get(video, "view_count", PyInt(0)).n
        like_count == Get(video, "like_count", PyInt(0)).n
        comment_count == Get(video, "comment_count", PyInt(0)).n
        engagement_rate == IF view_count > 0
                           THEN PyFloat(like_count + comment_count, view_count)
                           ELSE PyFloat(0, 1)
    IN  [like_rate |-> IF view_count > 0 THEN PyFloat(like_count, view_count)
                       ELSE PyFloat(0, 1),
         comment_rate |-> IF view_count > 0 THEN PyFloat(comment_count, view_count)
                          ELSE PyFloat(0, 1),
         engagement_rate |-> engagement_rate,
         engagement_score |->
             Min100(PyFloat(engagement_rate.n * 1000, engagement_rate.d))]

music_keywords ==
    << <<"m", "u", "s", "i", "c">>, <<"s", "o", "n", "g">>,
       <<"o", "f", "f", "i", "c", "i", "a", "l">>, <<"v", "i", "d", "e", "o">>,
       <<"a", "u", "d", "i", "o">>, <<"l", "y", "r", "i", "c", "s">>,
       <<"a", "l", "b", "u", "m">> >>

official_keywords ==
    << <<"o", "f", "f", "i", "c", "i", "a", "l">>, <<"v", "e", "v", "o">>,
       <<"r", "e", "c", "o", "r", "d", "s">>, <<"m", "u", "s", "i", "c">> >>

\* video is the dict built so far: title and description are texts, tags is
\* whatever the raw video held.
_is_music_video(video) ==
    LET title == LowerText(video.title.s)
        items == IterOf(Get(video, "tags", PyList(<<>>)))
        tags == [i \in 1..Len(items.l) |-> Lower(items.l[i])]
        title_score == Cardinality({n \in 1..Len(music_keywords) :
                                       IsSubstring(music_keywords[n], title)})
        tag_score == Cardinality({p \in (1..Len(tags)) \X (1..Len(music_keywords)) :
                                     IsSubstring(music_keywords[p[2]], tags[p[1]].s)})
        has_search_data == /\ Truthy(Get(video, "search_artist", PyNone))
                           /\ Truthy(Get(video, "search_track", PyNone))
    IN  IF IsRaise(items) THEN items
        ELSE IF \E i \in 1..Len(tags) : IsRaise(tags[i]) THEN Raise("AttributeError")
        ELSE PyBool(title_score >= 2 \/ tag_score >= 3 \/ has_search_data)

_is_official_content(video) ==
    LET title == LowerText(video.title.s)
        channel == LowerText(video.channel_title.s)
    IN  PyBool(\E n \in 1..Len(official_keywords) :
                  \/ IsSubstring(official_keywords[n], title)
                  \/ IsSubstring(official_keywords[n], channel))

\* [:1000] of the description
DescriptionLimit == 1000

\* self._clean_text(...)[:1000]
CleanDescription(description) ==
    IF IsRaise(description) THEN description
    ELSE Prefix(description, DescriptionLimit)

\* The dict literal of lines 202-256: the fields taken from the raw video.
VideoFields(video) ==
    [video_id |-> Get(video, "video_id", PyStr(<<>>)),
     title |-> _clean_text(Get(video, "title", PyStr(<<>>))),
     description |->
         CleanDescription(_clean_text(Get(video, "description", PyStr(<<>>)))),
     channel_title |-> _clean_text(Get(video, "channel_title", PyStr(<<>>))),
     view_count |-> _safe_int(Get(video, "view_count", PyInt(0))),
     like_count |-> _safe_int(Get(video, "like_count", PyInt(0))),
     dislike_count |-> _safe_int(Get(video, "dislike_count", PyInt(0))),
     comment_count |-> _safe_int(Get(video, "comment_count", PyInt(0))),
     favorite_count |-> _safe_int(Get(video, "favorite_count", PyInt(0))),
     published_at |-> _parse_datetime(Get(video, "published_at", PyStr(<<>>))),
     published_date |-> _parse_date(Get(video, "published_at", PyStr(<<>>))),
     tags |-> Get(video, "tags", PyList(<<>>)),
     category_id |-> Get(video, "category_id", PyStr(<<>>)),
     duration |-> Get(video, "duration", PyStr(<<>>)),
     duration_seconds |->
         _parse_duration_to_seconds(Get(video, "duration", PyStr(<<>>))),
     source_region |-> Get(video, "source_region", PyStr(<<>>)),
     search_artist |-> Get(video, "search_artist", PyStr(<<>>)),
     search_track |-> Get(video, "search_track", PyStr(<<>>))]

\* Lines 258-274: the categories, flags and lengths computed from the dict.
VideoDerived(d) ==
    [view_category |-> PyStr(_categorize_views(d.view_count.n)),
     duration_category |-> PyStr(_categorize_duration(d.duration_seconds.n)),
     is_music_video |-> _is_music_video(d),
     is_official |-> _is_official_content(d),
     tag_count |-> LenOf(d.tags),
     title_length |-> LenOf(d.title),
     description_length |-> LenOf(d.description)]

\* transformed_video.update(metrics) and the assignments of the derived
\* fields; _is_music_video may have raised.
MergeVideo(d, metrics, derived) ==
    IF IsRaise(derived.is_music_video) THEN Raise("Exception")
    ELSE [f \in DOMAIN d \cup DOMAIN metrics \cup DOMAIN derived |->
            IF f \in DOMAIN metrics THEN metrics[f]
            ELSE IF f \in DOMAIN derived THEN derived[f]
            ELSE d[f]]

\* The rest of the try once the dict literal is built, unless building it
\* raised.
EnrichVideo(d) ==
    IF AnyRaise(d) THEN Raise("Exception")
    ELSE MergeVideo(d, _calculate_engagement_metrics(d), VideoDerived(d))

\* The body of the try of transform_youtube_videos for one raw video.  Left
\* out are fields that are copied as they come or coerced like one that is
\* kept (channel_id, languages, dimension, definition, caption, status and
\* licence fields, thumbnails, extraction_timestamp, data_source) and the
\* timestamp transformed_at.
TransformVideo(video) == EnrichVideo(VideoFields(video))

\* A loop that gives up the rest of the batch at the first track that raises.
TransformTrackAbort ==
    /\ tracks_taken < Len(raw_tracks)
    /\ \E t \in {TransformTrack(raw_tracks[tracks_taken + 1])} :
          /\ transformed_tracks' =
                IF IsRaise(t) THEN transformed_tracks ELSE Append(transformed_tracks, t)
          /\ tracks_taken' = IF IsRaise(t) THEN Len(raw_tracks) ELSE tracks_taken + 1
    /\ UNCHANGED <<raw_tracks, videoVars, corrVars, youtube_videos, aggVars>>
    /\ UNCHANGED pipeVars

\* One iteration of the for loop of transform_spotify_tracks: a track whose
\* transformation raises is logged and skipped.
TransformTrackStep ==
    /\ tracks_taken < Len(raw_tracks)
    /\ \E t \in {TransformTrack(raw_tracks[tracks_taken + 1])} :
          transformed_tracks' =
             IF IsRaise(t) THEN transformed_tracks ELSE Append(transformed_tracks, t)
    /\ tracks_taken' = tracks_taken + 1
    /\ UNCHANGED <<raw_tracks, videoVars, corrVars, youtube_videos, aggVars>>
    /\ UNCHANGED pipeVars

\* One iteration of the for loop of transform_youtube_videos.
TransformVideoStep ==
    /\ videos_taken < Len(raw_videos)
    /\ \E v \in {TransformVideo(raw_videos[videos_taken + 1])} :
          transformed_videos' =
             IF IsRaise(v) THEN transformed_videos ELSE Append(transformed_videos, v)
    /\ videos_taken' = videos_taken + 1
    /\ UNCHANGED <<raw_videos, normVars, corrVars, youtube_videos, aggVars>>
    /\ UNCHANGED pipeVars

-----------------------------------------------------------------------------
(* Regional Aggregator: aggregate_regional_data                            *)
(* A dict that is iterated is kept as the sequence of its entries in       *)
(* insertion order: regional_data is a sequence of the stats dicts (each   *)
(* holds its key as region_code), a counter dict a sequence of             *)
(* <<key, count>>.                                                         *)

\* [:5] of the sorted counters
TopN == 5

\* A list cannot be a dict key.
Hashable(key) == key.k # "list"

\* Two keys are one key of a dict when they are equal: the same value, or
\* numbers (flags included) of the same value.
KeyEq(a, b) ==
    LET num(v) == CASE v.k = "int" -> <<v.n, 1>>
                    [] v.k = "bool" -> <<IF v.b THEN 1 ELSE 0, 1>>
                    [] v.k = "float" -> <<v.n, v.d>>
    IN  \/ a = b
        \/ /\ a.k \in {"int", "bool", "float"}
           /\ b.k \in {"int", "bool", "float"}
           /\ num(a) = num(b)

\* counters[key] = counters.get(key, 0) + 1: a new key goes last, a known
\* key keeps its place (and the key object first inserted).
Count(counters, key) ==
    IF \E i \in 1..Len(counters) : KeyEq(counters[i][1], key)
    THEN [i \in 1..Len(counters) |->
            IF KeyEq(counters[i][1], key)
            THEN <<counters[i][1], PyInt(counters[i][2].n + 1)>> ELSE counters[i]]
    ELSE Append(counters, <<key, PyInt(1)>>)

\* A sort by count, descending, that lists equal counts last seen first.
RECURSIVE SortByCountLastFirst(_)
SortByCountLastFirst(s) ==
    IF s = <<>> THEN <<>>
    ELSE LET rest == SortByCountLastFirst(SubSeq(s, 1, Len(s) - 1))
             x == s[Len(s)]
             p == Cardinality({i \in 1..Len(rest) : x[2].n < rest[i][2].n})
         IN  SubSeq(rest, 1, p) \o <<x>> \o SubSeq(rest, p + 1, Len(rest))

\* sorted(counters.items(), key=lambda x: x[1], reverse=True): stable.
RECURSIVE SortByCountDesc(_)
SortByCountDesc(s) ==
    IF s = <<>> THEN <<>>
    ELSE LET rest == SortByCountDesc(SubSeq(s, 1, Len(s) - 1))
             x == s[Len(s)]
             p == Cardinality({i \in 1..Len(rest) : x[2].n <= rest[i][2].n})
         IN  SubSeq(rest, 1, p) \o <<x>> \o SubSeq(rest, p + 1, Len(rest))

\* The dict a region starts with, lines 371-383 (created_at is left out).
NewRegion(region) ==
    [region_code |-> region,
     total_videos |-> PyInt(0),
     total_views |-> PyInt(0),
     total_likes |-> PyInt(0),
     total_comments |-> PyInt(0),
     avg_duration |-> PyInt(0),
     music_videos_count |-> PyInt(0),
     official_videos_count |-> PyInt(0),
     top_channels |-> <<>>,
     top_categories |-> <<>>]

\* The position of region in data, 0 if it is no key.
RegionIndex(data, region) ==
    IF \E i \in 1..Len(data) : KeyEq(data[i].region_code, region)
    THEN CHOOSE i \in 1..Len(data) : KeyEq(data[i].region_code, region)
    ELSE 0

\* 'unknown'
Unknown == PyStr(<<"u", "n", "k", "n", "o", "w", "n">>)

\* The region, channel and category a video is counted under.
RegionOf(video) == Get(video, "source_region", Unknown)
ChannelOf(video) == Get(video, "channel_title", Unknown)
CategoryOf(video) == Get(video, "category_id", Unknown)

\* An update that keeps the counts of the latest video instead of adding them.
UpdateRegionLatest(stats, video) ==
    [stats EXCEPT
       !.total_videos = PyInt(@.n + 1),
       !.total_views = Get(video, "view_count", PyInt(0)),
       !.total_likes = Get(video, "like_count", PyInt(0)),
       !.total_comments = Get(video, "comment_count", PyInt(0)),
       !.top_channels = Count(@, ChannelOf(video)),
       !.top_categories = Count(@, CategoryOf(video))]

\* The updates of lines 388-405 to the stats of the video's region.  The
\* counts of a normalized video are ints.
UpdateRegion(stats, video) ==
    [stats EXCEPT
       !.total_videos = PyInt(@.n + 1),
       !.total_views = PyInt(@.n + Get(video, "view_count", PyInt(0)).n),
       !.total_likes = PyInt(@.n + Get(video, "like_count", PyInt(0)).n),
       !.total_comments = PyInt(@.n + Get(video, "comment_count", PyInt(0)).n),
       !.music_videos_count =
           IF Truthy(Get(video, "is_music_video", PyBool(FALSE)))
           THEN PyInt(@.n + 1) ELSE @,
       !.official_videos_count =
           IF Truthy(Get(video, "is_official", PyBool(FALSE)))
           THEN PyInt(@.n + 1) ELSE @,
       !.top_channels = Count(@, ChannelOf(video)),
       !.top_categories = Count(@, CategoryOf(video))]

\* main.py, _run_transformation: once the videos are transformed (and there
\* were raw videos at all), aggregate_regional_data is called with them.
RunRegionalAggregation ==
    /\ agg_pc = "idle"
    /\ raw_videos # <<>>
    /\ videos_taken = Len(raw_videos)
    /\ youtube_videos' = transformed_videos
    /\ agg_pc' = "fold"
    /\ regional_data' = <<>>
    /\ aggregated_data' = <<>>
    /\ vid' = 0
    /\ reg' = 0
    /\ UNCHANGED <<normVars, videoVars, corrVars>>
    /\ UNCHANGED pipeVars

\* An iteration that takes its video off the list it was given.
AggregateVideoConsuming ==
    /\ agg_pc = "fold"
    /\ vid < Len(youtube_videos)
    /\ LET video == youtube_videos[vid + 1]
           region == RegionOf(video)
           known == RegionIndex(regional_data, region) # 0
           data == IF known THEN regional_data
                   ELSE Append(regional_data, NewRegion(region))
           i == RegionIndex(data, region)
       IN  regional_data' = [data EXCEPT ![i] = UpdateRegion(@, video)]
    /\ youtube_videos' = Tail(youtube_videos)
    /\ UNCHANGED <<agg_pc, vid, aggregated_data, reg, normVars, videoVars, corrVars>>
    /\ UNCHANGED pipeVars

\* One iteration of the first for loop: the video is counted under its
\* region, which is created when it is new.  An unhashable region, channel
\* or category raises TypeError out of the function.
AggregateVideo ==
    /\ agg_pc = "fold"
    /\ vid < Len(youtube_videos)
    /\ LET video == youtube_videos[vid + 1]
           region == RegionOf(video)
           known == RegionIndex(regional_data, region) # 0
           data == IF known THEN regional_data
                   ELSE Append(regional_data, NewRegion(region))
           i == RegionIndex(data, region)
       IN  IF ~(Hashable(region) /\ Hashable(ChannelOf(video))
                                 /\ Hashable(CategoryOf(video)))
           THEN agg_pc' = "raised" /\ regional_data' = regional_data
           ELSE /\ agg_pc' = "fold"
                /\ regional_data' = [data EXCEPT ![i] = UpdateRegion(@, video)]
    /\ vid' = vid + 1
    /\ UNCHANGED <<aggregated_data, reg, normVars, videoVars, corrVars, youtube_videos>>
    /\ UNCHANGED pipeVars

\* The body of the second loop for one region with total_videos > 0, lines
\* 412-437: the averages and the two top-5 lists are added, the counter
\* dicts deleted.
Finalize(stats) ==
    LET total_videos == stats.total_videos.n
        total_views == stats.total_views.n
        d == [avg_views_per_video |-> PyFloat(total_views, total_videos),
              avg_likes_per_video |-> PyFloat(stats.total_likes.n, total_videos),
              avg_comments_per_video |-> PyFloat(stats.total_comments.n, total_videos),
              avg_engagement_rate |->
                  IF total_views > 0
                  THEN PyFloat(stats.total_likes.n + stats.total_comments.n, total_views)
                  ELSE PyInt(0),
              top_5_channels |-> Take(SortByCountDesc(stats.top_channels), TopN),
              top_5_categories |-> Take(SortByCountDesc(stats.top_categories), TopN)]
    IN  [f \in ((DOMAIN stats) \ {"top_channels", "top_categories"}) \cup DOMAIN d |->
            IF f \in DOMAIN d THEN d[f] ELSE stats[f]]

\* One iteration of the second for loop, over the regions in insertion
\* order.  The dict appended is the dict of regional_data itself.
AggregateFinalize ==
    /\ agg_pc = "fold"
    /\ vid = Len(youtube_videos)
    /\ reg < Len(regional_data)
    /\ IF regional_data[reg + 1].total_videos.n > 0
       THEN \E stats \in {Finalize(regional_data[reg + 1])} :
               /\ regional_data' = [regional_data EXCEPT ![reg + 1] = stats]
               /\ aggregated_data' = Append(aggregated_data, stats)
       ELSE UNCHANGED <<regional_data, aggregated_data>>
    /\ reg' = reg + 1
    /\ UNCHANGED <<vid, agg_pc, normVars, videoVars, corrVars, youtube_videos>>
    /\ UNCHANGED pipeVars

\* Both loops are over: return aggregated_data.
AggregateReturn ==
    /\ agg_pc = "fold"
    /\ vid = Len(youtube_videos)
    /\ reg = Len(regional_data)
    /\ agg_pc' = "done"
    /\ UNCHANGED <<regional_data, aggregated_data, vid, reg, normVars, videoVars,
                   corrVars, youtube_videos>>
    /\ UNCHANGED pipeVars

-----------------------------------------------------------------------------
(* Inputs *)

\* A raw mapping with the field f set to v, or without f when v is Absent.
Absent == [k |-> "absent"]
With(d, f, v) ==
    IF v = Absent THEN [g \in (DOMAIN d) \ {f} |-> d[g]]
    ELSE [g \in (DOMAIN d) \cup {f} |-> IF g = f THEN v ELSE d[g]]

\* Bounds of the inputs.
MaxBatch == 3          \* raw records in one batch of the Normalizer
MaxTracks == 2         \* tracks given to correlate
MaxVideos == 2         \* videos given to correlate along with several tracks
MaxCandidates == 6     \* videos given to correlate along with one track
MaxRegionVideos == 3   \* raw videos aggregated, of several regions
MaxChannelVideos == 7  \* raw videos aggregated, of one region

(* Raw tracks *)

BaseRawTrack ==
    [track_id |-> PyStr(<<"t", "1">>),
     name |-> PyStr(<<"H", "i">>),
     artist_name |-> PyStr(<<"A", "b">>),
     album_name |-> PyStr(<<"L", "p">>),
     artists |-> PyList(<<PyStr(<<"A", "b">>)>>),
     popularity |-> PyInt(85),
     duration_ms |-> PyInt(200000),
     explicit |-> PyBool(FALSE),
     release_date |-> PyStr(<<"2", "0", "2", "0">>),
     available_markets |-> PyList(<<PyStr(<<"B", "R">>)>>)]

\* What a raw field may hold besides a value of its type: nothing, null, or
\* a value of another type.
TextValues ==
    {Absent, PyNone, PyStr(<<>>), PyStr(<<" ", "H", " ", "\t", "i", " ">>),
     PyInt(7), PyInt(0), PyList(<<>>), PyList(<<PyStr(<<"H">>)>>), PyBool(TRUE)}
NumberValues ==
    {Absent, PyNone, PyInt(-3), PyInt(150), PyStr(<<"a", "b", "c">>), PyStr(<<>>),
     PyStr(<<" ", "4", "2">>), PyStr(<<"-", "7">>), PyList(<<PyInt(1)>>),
     PyBool(TRUE), PyFloat(7, 2), PyInf}
ListValues ==
    {Absent, PyNone, PyList(<<>>), PyList(<<PyStr(<<"A">>), PyStr(<<" ", "b">>)>>),
     PyList(<<PyNone>>), PyList(<<PyInt(5)>>), PyStr(<<"a", "b">>), PyInt(3)}
FlagValues == {Absent, PyNone, PyBool(TRUE), PyStr(<<"n", "o">>), PyInt(0)}
DateValues ==
    {Absent, PyNone, PyStr(<<>>), PyStr(<<"2", "0", "2", "0", "-", "0", "5">>),
     PyStr(<<"2", "0", "2", "0", "-", "0", "5", "-", "1", "7", "T", "0", "1">>),
     PyStr(<<"2", "0">>), PyInt(2020), PyList(<<PyInt(1)>>)}

TrackFieldValues ==
    [track_id |-> {Absent, PyNone, PyInt(9)},
     name |-> TextValues,
     artist_name |-> TextValues,
     album_name |-> TextValues,
     artists |-> ListValues,
     popularity |-> NumberValues,
     duration_ms |-> NumberValues,
     explicit |-> FlagValues,
     release_date |-> DateValues,
     available_markets |-> ListValues]

\* The raw tracks that differ from the base track in at most two fields.
OneOffTracks ==
    {With(BaseRawTrack, f, v) :
        <<f, v>> \in UNION {{f} \X TrackFieldValues[f] : f \in DOMAIN TrackFieldValues}}
TwoOffTracks ==
    {With(t, f, v) :
        <<t, f, v>> \in UNION {OneOffTracks \X {f} \X TrackFieldValues[f] :
                                  f \in {"name", "artists", "popularity"}}}
WideRawTracks == {BaseRawTrack} \cup OneOffTracks \cup TwoOffTracks

\* The raw tracks of the batches: two that transform, two that raise.
BatchRawTracks ==
    {BaseRawTrack,
     [track_id |-> PyStr(<<"t", "2">>)],
     With(BaseRawTrack, "name", PyInt(7)),
     With(With(BaseRawTrack, "track_id", PyStr(<<"t", "3">>)), "artists", PyNone)}

(* Raw videos *)

BaseRawVideo ==
    [video_id |-> PyStr(<<"v", "1">>),
     title |-> PyStr(<<"A", "b", " ", "-", " ", "H", "i">>),
     description |-> PyStr(<<"h", "i">>),
     channel_title |-> PyStr(<<"A", "b", "V", "E", "V", "O">>),
     view_count |-> PyStr(<<"1", "0", "0", "0">>),
     like_count |-> PyStr(<<"5", "0">>),
     dislike_count |-> PyInt(0),
     comment_count |-> PyStr(<<"7">>),
     favorite_count |-> PyInt(0),
     published_at |-> PyStr(<<"2", "0", "2", "0", "-", "0", "5", "-", "1", "7", "T",
                              "0", "1", ".", "5", "Z">>),
     tags |-> PyList(<<PyStr(<<"p", "o", "p">>)>>),
     category_id |-> PyStr(<<"1", "0">>),
     duration |-> PyStr(<<"P", "T", "3", "M", "2", "0", "S">>),
     source_region |-> PyStr(<<"B", "R">>)]

DurationValues ==
    {Absent, PyNone, PyStr(<<>>), PyStr(<<"P", "T", "1", "H", "2", "M", "3", "S">>),
     PyStr(<<"P", "T", "1", "5", "S">>), PyStr(<<"P", "1", "D">>), PyInt(90),
     PyList(<<PyInt(1)>>)}
TagValues ==
    {Absent, PyNone, PyList(<<>>), PyInt(3), PyStr(<<"a", "b">>), PyList(<<PyInt(5)>>),
     PyList(<<PyStr(<<"M", "u", "s", "i", "c">>), PyStr(<<"s", "o", "n", "g">>),
              PyStr(<<"a", "u", "d", "i", "o">>)>>)}
KeyValues == {Absent, PyNone, PyStr(<<>>), PyStr(<<"U", "S">>), PyInt(1), PyList(<<>>)}

VideoFieldValues ==
    [video_id |-> {Absent, PyNone, PyInt(9)},
     title |-> TextValues \cup {PyStr(<<"O", "f", "f", "i", "c", "i", "a", "l", " ",
                                        "V", "i", "d", "e", "o">>)},
     description |-> TextValues,
     channel_title |-> TextValues,
     view_count |-> NumberValues,
     like_count |-> NumberValues,
     dislike_count |-> NumberValues,
     comment_count |-> NumberValues,
     favorite_count |-> NumberValues,
     published_at |-> DateValues,
     tags |-> TagValues,
     category_id |-> KeyValues,
     duration |-> DurationValues,
     source_region |-> KeyValues,
     search_artist |-> {PyNone, PyStr(<<>>), PyStr(<<"A", "b">>), PyInt(4)},
     search_track |-> {PyNone, PyStr(<<>>), PyStr(<<"H", "i">>), PyInt(4)}]

\* The raw videos that differ from the base video in at most two fields.
OneOffVideos ==
    {With(BaseRawVideo, f, v) :
        <<f, v>> \in UNION {{f} \X VideoFieldValues[f] : f \in DOMAIN VideoFieldValues}}
TwoOffVideos ==
    {With(t, f, v) :
        <<t, f, v>> \in UNION {OneOffVideos \X {f} \X VideoFieldValues[f] :
                                  f \in {"title", "view_count", "search_track"}}}
WideRawVideos == {BaseRawVideo} \cup OneOffVideos \cup TwoOffVideos

\* The raw videos of the batches: two that transform, two that raise.
BatchRawVideos ==
    {BaseRawVideo,
     [video_id |-> PyStr(<<"v", "2">>)],
     With(BaseRawVideo, "tags", PyNone),
     With(With(BaseRawVideo, "video_id", PyStr(<<"v", "3">>)), "view_count", PyInf)}

(* Initial states *)

NormIdle == raw_tracks = <<>> /\ transformed_tracks = <<>> /\ tracks_taken = 0
VideoIdle == raw_videos = <<>> /\ transformed_videos = <<>> /\ videos_taken = 0
CorrIdle ==
    spotify_tracks = <<>> /\ correlations = <<>> /\ trk = 0 /\ related_videos = PyNone
AggIdle ==
    /\ regional_data = <<>> /\ aggregated_data = <<>>
    /\ vid = 0 /\ reg = 0 /\ agg_pc = "idle"
PipeIdle ==
    /\ config = <<>> /\ extracted_data = <<>> /\ transformed_data = <<>>
    /\ loaded = {} /\ stage = "idle" /\ pipeline_result = <<>>

\* The base track with each popularity of Spotify's scale, and with durations
\* on both sides of each bound of the duration bins.
MaxPopularity == 100
ScaleRawTracks ==
    {With(BaseRawTrack, "popularity", PyInt(p)) : p \in 0..MaxPopularity}
    \cup {With(BaseRawTrack, "duration_ms", PyInt(ms)) :
             ms \in {0, 59999, 60000, 179999, 180000, 299999, 300000, 599999, 600000}}

\* A single raw record of any shape, or a batch of a few.
RawTrackInputs ==
    {<<t>> : t \in WideRawTracks \cup ScaleRawTracks}
    \cup SeqsUpTo(BatchRawTracks, MaxBatch)
\* The ISO 8601 text PT[h H][m M][s S]; a component below 0 is left out.
IsoPart(n, unit) == IF n < 0 THEN <<>> ELSE Digits(n) \o <<unit>>
IsoDuration(h, m, s) == <<"P", "T">> \o IsoPart(h, "H") \o IsoPart(m, "M") \o IsoPart(s, "S")
IsoParts == {-1, 0, 1, 12} \X {-1, 0, 2, 59} \X {-1, 0, 3, 45}
IsoRawVideos ==
    {With(BaseRawVideo, "duration", PyStr(IsoDuration(c[1], c[2], c[3]))) : c \in IsoParts}

RawVideoInputs ==
    {<<v>> : v \in WideRawVideos \cup IsoRawVideos}
    \cup SeqsUpTo(BatchRawVideos, MaxBatch)

-----------------------------------------------------------------------------
(* The Normalizer alone: transform_spotify_tracks or                       *)
(* transform_youtube_videos is called with a list of raw mappings.         *)

InitNorm ==
    /\ \/ raw_tracks \in RawTrackInputs /\ raw_videos = <<>>
       \/ raw_tracks = <<>> /\ raw_videos \in RawVideoInputs
    /\ transformed_tracks = <<>> /\ tracks_taken = 0
    /\ transformed_videos = <<>> /\ videos_taken = 0
    /\ youtube_videos = <<>>
    /\ CorrIdle /\ AggIdle /\ PipeIdle

NextNorm == TransformTrackStep \/ TransformVideoStep

SpecNorm == InitNorm /\ [][NextNorm]_vars

-----------------------------------------------------------------------------
(* The regional aggregation of the pipeline: the raw videos are            *)
(* transformed and aggregate_regional_data is called with the result.      *)

\* Raw videos of several regions: of BR, of US, without source_region, one
\* the Normalizer drops, one whose region cannot be a dict key.
RegionRawVideos ==
    {BaseRawVideo,
     [video_id |-> PyStr(<<"v", "2">>), title |-> PyStr(<<"H", "i">>),
      channel_title |-> PyStr(<<"Z", "e">>), view_count |-> PyInt(3),
      like_count |-> PyStr(<<"2">>), category_id |-> PyStr(<<"2", "4">>),
      source_region |-> PyStr(<<"U", "S">>)],
     [video_id |-> PyStr(<<"v", "3">>), title |-> PyStr(<<"A", "b", " ", "H", "i">>),
      channel_title |-> PyStr(<<"Z", "e">>), view_count |-> PyStr(<<"2", "0">>),
      comment_count |-> PyInt(1), search_artist |-> PyStr(<<"A", "b">>),
      search_track |-> PyStr(<<"H", "i">>)],
     With(With(BaseRawVideo, "video_id", PyStr(<<"v", "4">>)), "tags", PyNone),
     With(With(BaseRawVideo, "video_id", PyStr(<<"v", "5">>)), "source_region",
          PyList(<<>>)),
     With(With(With(BaseRawVideo, "video_id", PyStr(<<"v", "6">>)), "view_count",
               PyInt(150)), "category_id", PyStr(<<"2", "4">>))}

\* Raw videos of one region that differ in channel and category: the names
\* are not in alphabetical order.
ChannelNames == <<"d", "b", "f", "a", "e", "c">>
CategoryNames == <<"3", "1", "5", "6", "2", "4">>
RawChannelVideo(c) ==
    With(With(BaseRawVideo, "channel_title", PyStr(<<ChannelNames[c]>>)),
         "category_id", PyStr(<<CategoryNames[c]>>))

\* The lists of n channels in which every channel is the next new one or one
\* seen before.
RECURSIVE ChannelLists(_)
ChannelLists(n) ==
    IF n = 0 THEN {<<>>}
    ELSE UNION {{Append(s, c) :
                   c \in 1..Min(Len(ChannelNames),
                                Cardinality({s[i] : i \in 1..Len(s)}) + 1)} :
                s \in ChannelLists(n - 1)}

\* A raw video the API reports a negative view count for, and one of the
\* same region with fewer views than that one lacks.
NegativeViewsVideo ==
    With(With(BaseRawVideo, "video_id", PyStr(<<"v", "7">>)), "view_count", PyInt(-5))
FewViewsVideo ==
    With(With(BaseRawVideo, "video_id", PyStr(<<"v", "8">>)), "view_count", PyInt(5))

RegionVideoInputs ==
    (SeqsUpTo(RegionRawVideos, MaxRegionVideos) \ {<<>>})
    \cup {<<NegativeViewsVideo>>, <<NegativeViewsVideo, FewViewsVideo>>,
          <<FewViewsVideo, NegativeViewsVideo, NegativeViewsVideo>>}
    \cup {[i \in 1..Len(s) |-> RawChannelVideo(s[i])] :
            s \in ChannelLists(MaxChannelVideos - 1) \cup ChannelLists(MaxChannelVideos)}

InitRegion ==
    /\ raw_videos \in RegionVideoInputs
    /\ transformed_videos = <<>> /\ videos_taken = 0
    /\ youtube_videos = <<>>
    /\ NormIdle /\ CorrIdle /\ AggIdle /\ PipeIdle

NextRegion ==
    \/ TransformVideoStep
    \/ RunRegionalAggregation
    \/ AggregateVideo
    \/ AggregateFinalize
    \/ AggregateReturn

SpecRegion == InitRegion /\ [][NextRegion]_vars

-----------------------------------------------------------------------------
(* The Correlator on normalized records: correlate_spotify_youtube_data is *)
(* called with lists made of outputs of the two transformations.  The      *)
(* search metadata of a video is text, as extraction writes it.            *)

MaxNameLen == 2        \* characters of a track name or search_track
MaxTitleLen == 3       \* characters of a video title

Texts(alphabet, n) == SeqsUpTo(alphabet, n)

RawMatchTrack(id, name, artist, ms) ==
    [track_id |-> PyStr(id), name |-> PyStr(name), artist_name |-> PyStr(artist),
     popularity |-> PyInt(50), duration_ms |-> PyInt(ms)]

RawMatchVideo(id, title, search_artist, search_track, duration) ==
    [video_id |-> PyStr(id), title |-> PyStr(title),
     channel_title |-> PyStr(<<"c", "h">>), view_count |-> PyInt(1000),
     like_count |-> PyInt(10), duration |-> PyStr(duration),
     search_artist |-> PyStr(search_artist), search_track |-> PyStr(search_track)]

\* The transformed records of a set of raw ones.
TracksOf(raw) == {t \in {TransformTrack(r) : r \in raw} : ~IsRaise(t)}
VideosOf(raw) == {v \in {TransformVideo(r) : r \in raw} : ~IsRaise(v)}

MatchTracks ==
    TracksOf({RawMatchTrack(<<"t", "1">>, <<"a", "b">>, <<"c">>, 3000),
              RawMatchTrack(<<"t", "2">>, <<" ", "A", "b">>, <<"C">>, 0),
              RawMatchTrack(<<"t", "3">>, <<"z">>, <<>>, 2500)})

V1 == RawMatchVideo(<<"v", "1">>, <<"c", " ", "a", "b">>, <<>>, <<>>, <<"P", "T", "3", "S">>)
V2 == RawMatchVideo(<<"v", "2">>, <<"x", "x">>, <<"C">>, <<"A", "B">>, <<"P", "T", "4", "S">>)
V3 == RawMatchVideo(<<"v", "3">>, <<"a", "b">>, <<>>, <<>>, <<>>)
V4 == RawMatchVideo(<<"v", "4">>, <<"c", "x">>, <<>>, <<>>, <<"P", "T", "1", "M">>)
V5 == RawMatchVideo(<<"v", "5">>, <<"A", "B">>, <<>>, <<>>, <<"P", "T", "2", "S">>)
V6 == RawMatchVideo(<<"v", "6">>, <<"b", "z">>, <<"c">>, <<>>, <<"P", "T", "3", "S">>)

MatchVideos == VideosOf({V1, V2, V3, V4, V5, V6})

\* One track and many candidates: two of equal score, one at the threshold.
CandidateTrack == TracksOf({RawMatchTrack(<<"t", "1">>, <<"a", "b">>, <<"c">>, 3000)})
CandidatePool == VideosOf({V1, V3, V4, V5})

\* One track and one video, over all short texts.
PairTracks ==
    TracksOf({RawMatchTrack(<<"t", "1">>, name, artist, 3000) :
                 name \in Texts({"a", "B"}, MaxNameLen), artist \in {<<>>, <<"a">>}})
PairVideos ==
    VideosOf({RawMatchVideo(<<"v", "1">>, title, sa, st, <<>>) :
                 title \in Texts({"a", "B"}, MaxTitleLen),
                 sa \in {<<>>, <<"A">>},
                 st \in {<<>>, <<"A">>, <<"b">>, <<"A", "b">>}})

\* The scenario of one track and one video without search metadata.
HelloRawTrack ==
    [name |-> PyStr(<<"H", "e", "l", "l", "o">>), artist_name |-> PyStr(<<"A", "d", "e", "l", "e">>),
     popularity |-> PyInt(90), duration_ms |-> PyInt(295000)]
HelloRawVideo ==
    [title |-> PyStr(<<"A", "d", "e", "l", "e", " ", "-", " ", "H", "e", "l",
                      "l", "o", " ", "(", "O", "f", "f", "i", "c", "i", "a",
                      "l", " ", "V", "i", "d", "e", "o", ")">>),
     view_count |-> PyInt(1000000), like_count |-> PyInt(50000)]
HelloTracks == TracksOf({HelloRawTrack})
HelloVideos ==
    VideosOf({HelloRawVideo,
              With(HelloRawVideo, "duration", PyStr(<<"P", "T", "4", "M", "5", "0", "S">>))})

\* One track and one video that match by title, over durations: a negative
\* duration_ms, 0, shorter and longer than the video; a video without
\* duration, of seconds and of a minute.
DurationTracks ==
    TracksOf({RawMatchTrack(<<"t", "1">>, <<"a", "b">>, <<"c">>, ms) :
                 ms \in {-1500, 0, 2000, 3000, 90000}})
DurationVideos ==
    VideosOf({RawMatchVideo(<<"v", "1">>, <<"c", " ", "a", "b">>, <<>>, <<>>, d) :
                 d \in {<<>>, <<"P", "T", "3", "S">>, <<"P", "T", "1", "M">>}})

InitCorr ==
    /\ \/ /\ spotify_tracks \in {<<t>> : t \in DurationTracks}
          /\ youtube_videos \in {<<v>> : v \in DurationVideos}
       \/ /\ spotify_tracks \in SeqsUpTo(MatchTracks, MaxTracks)
          /\ youtube_videos \in SeqsUpTo(MatchVideos, MaxVideos)
       \/ /\ spotify_tracks \in {<<t>> : t \in CandidateTrack}
          /\ youtube_videos \in SeqsUpTo(CandidatePool, MaxCandidates)
       \/ /\ spotify_tracks \in {<<t>> : t \in PairTracks}
          /\ youtube_videos \in {<<v>> : v \in PairVideos}
       \/ /\ spotify_tracks \in {<<t>> : t \in HelloTracks}
          /\ youtube_videos \in {<<v>> : v \in HelloVideos}
    /\ correlations = <<>> /\ trk = 0 /\ related_videos = PyNone
    /\ NormIdle /\ VideoIdle /\ AggIdle /\ PipeIdle

NextCorr == CorrelateTrack

SpecCorr == InitCorr /\ [][NextCorr]_vars

-----------------------------------------------------------------------------
(* Properties of the Matcher and the Correlator, under SpecCorr *)

\* The track the loop of correlate took last.
LastTrack == spotify_tracks[trk]

\* The scores of the videos for a track, in the order of the videos.
ScoresFor(track) ==
    [i \in 1..Len(youtube_videos) |-> _calculate_similarity(track, youtube_videos[i])]

\* The positions of sc that hold a score above 0.3.
AboveThreshold(sc) == {i \in 1..Len(sc) : FLess(PyFloat(3, 10), sc[i])}

\* Position j comes before position i in the ranking: a higher score, or an
\* equal score and earlier in the input.
RanksBefore(sc, j, i) == FLess(sc[i], sc[j]) \/ (sc[i] = sc[j] /\ j < i)

\* The ranking of the video list: the r-th entry is the (video, score) of the
\* position above the threshold that exactly r - 1 such positions come before.
Ranked(sc) ==
    LET above == AboveThreshold(sc)
        place(r) == CHOOSE i \in above :
                       Cardinality({j \in above : RanksBefore(sc, j, i)}) = r - 1
    IN  [r \in 1..Cardinality(above) |-> <<youtube_videos[place(r)], sc[place(r)]>>]

\* C1: the Matcher returns exactly the candidates scored above 0.3, by score
\* descending with equal scores in input order, cut to the first 5; so no
\* returned score is <= 0.3, at most 5 are returned, the scores do not
\* increase along the result, and no candidate left out scores higher than
\* one returned.
C1_MatcherTopFive ==
    (trk > 0 /\ ~IsRaise(related_videos)) =>
        \A sc \in {ScoresFor(LastTrack)} :
            LET res == related_videos.l
            IN  /\ res = Take(Ranked(sc), 5)
                /\ Len(res) <= 5
                /\ \A n \in 1..Len(res) : FLess(PyFloat(3, 10), res[n][2])
                /\ \A n \in 1..(Len(res) - 1) : FLeq(res[n + 1][2], res[n][2])
                /\ \A i \in AboveThreshold(sc) :
                      (\A n \in 1..Len(res) : res[n] # <<youtube_videos[i], sc[i]>>)
                          => \A n \in 1..Len(res) : FLeq(sc[i], res[n][2])

\* More than 5 candidates above the threshold, of which 5 are returned, two
\* different videos of equal score among them.
C1_Witness ==
    /\ trk = 1
    /\ ~IsRaise(related_videos)
    /\ Len(related_videos.l) = 5
    /\ Cardinality(AboveThreshold(ScoresFor(LastTrack))) > 5
    /\ \E n \in 1..4 :
          /\ related_videos.l[n][2] = related_videos.l[n + 1][2]
          /\ related_videos.l[n][1] # related_videos.l[n + 1][1]

\* The score the claim gives for a normalized track and video.
ClaimedScore(track, video) ==
    LET name == LowerText(track.name.s)
        artist == LowerText(track.artist_name.s)
        title == LowerText(video.title.s)
        sa == video.search_artist.s
        st == video.search_track.s
        r == ratio(name, title)
    IN  IF sa # <<>> /\ st # <<>> /\ LowerText(sa) = artist /\ LowerText(st) = name
        THEN PyFloat(1, 1)
        ELSE IF IsSubstring(artist, title)
             THEN PyFloat(7 * r.n + 3 * r.d, 10 * r.d)
             ELSE PyFloat(7 * r.n, 10 * r.d)

\* C2: the score is 1.0 when search_artist and search_track are both
\* non-empty and equal, ignoring case, the track's artist_name and name, and
\* else 0.7 * name_similarity + 0.3 * artist_in_title; it lies in [0, 1].
C2_SimilarityScore ==
    \A n \in 1..trk : \A i \in 1..Len(youtube_videos) :
        \A score \in {_calculate_similarity(spotify_tracks[n], youtube_videos[i])} :
            /\ score = ClaimedScore(spotify_tracks[n], youtube_videos[i])
            /\ FLeq(PyFloat(0, 1), score) /\ FLeq(score, PyFloat(1, 1))

\* A returned video that scores 1.0 by its search metadata, written in
\* another case than the track's, while its title alone scores lower.
C2_Witness ==
    /\ trk > 0
    /\ ~IsRaise(related_videos)
    /\ \E n \in 1..Len(related_videos.l) :
          LET video == related_videos.l[n][1]
              r == ratio(LowerText(LastTrack.name.s), LowerText(video.title.s))
          IN  /\ related_videos.l[n][2] = PyFloat(1, 1)
              /\ video.search_track.s # LastTrack.name.s
              /\ video.search_track.s # <<>>
              /\ FLess(r, PyFloat(1, 1))

\* What the Matcher returns for a track: <<video, score>> pairs.
MatchesOf(track) == _find_related_videos(track, youtube_videos).l

RECURSIVE Concat(_)
Concat(seqs) == IF seqs = <<>> THEN <<>> ELSE seqs[1] \o Concat(Tail(seqs))

\* C3: the output is ordered by track in input order and within a track in
\* the Matcher's order, by descending score; it holds exactly one
\* Correlation per (video, score) pair the Matcher returned for the track,
\* and a track without a match adds nothing and causes no error.
C3_CorrelationOrder ==
    /\ ~IsRaise(related_videos)
    /\ \A found \in {[i \in 1..trk |-> MatchesOf(spotify_tracks[i])]} :
          /\ [n \in 1..Len(correlations) |->
                <<correlations[n].track_id, correlations[n].video_id,
                  correlations[n].similarity_score>>]
               = Concat([i \in 1..trk |->
                           [j \in 1..Len(found[i]) |->
                              <<spotify_tracks[i].track_id, found[i][j][1].video_id,
                                found[i][j][2]>>]])
          /\ \A i \in 1..trk : \A j \in 1..(Len(found[i]) - 1) :
                FLeq(found[i][j + 1][2], found[i][j][2])

\* Both tracks taken: the first without any match, the second with two
\* matches of different scores.
C3_Witness ==
    /\ trk = 2 /\ Len(spotify_tracks) = 2
    /\ MatchesOf(spotify_tracks[1]) = <<>>
    /\ Len(correlations) = 2
    /\ FLess(correlations[2].similarity_score, correlations[1].similarity_score)

\* The Correlations of one track given the whole video collection.
GroupOf(track) == AppendCorrelations(<<>>, track, MatchesOf(track)).out

\* C4: no global deduplication: each step of correlate adds, after what the
\* earlier tracks gave, the at most 5 Correlations that the track alone has
\* with the whole video collection, whatever the other tracks matched.
C4_ManyToMany ==
    [][(trk' = trk + 1) =>
          \A group \in {GroupOf(spotify_tracks[trk'])} :
              /\ correlations' = correlations \o group
              /\ Len(group) <= 5]_vars

\* One video correlated with two different tracks.
C4_Witness ==
    \E m, n \in 1..Len(correlations) :
        /\ correlations[m].video_id = correlations[n].video_id
        /\ correlations[m].track_id # correlations[n].track_id

-----------------------------------------------------------------------------
(* Claims about the Normalizer, checked under SpecNorm.                    *)

TrackNumbers == {"popularity", "duration_ms"}
VideoNumbers ==
    {"view_count", "like_count", "dislike_count", "comment_count", "favorite_count"}

\* The raw value is a number or the text of a whole number.
NumericText(s) ==
    \E i \in 0..Len(s) : \E j \in i..Len(s) :
       /\ j > i
       /\ \A n \in 1..Len(s) :
             IF n <= i THEN IsSpace(s[n]) \/ (n = i /\ s[n] \in {"+", "-"})
             ELSE IF n <= j THEN IsDigit(s[n])
             ELSE IsSpace(s[n])
IsNumber(raw, f) ==
    /\ f \in DOMAIN raw
    /\ \/ raw[f].k \in {"int", "bool", "float", "inf"}
       \/ raw[f].k = "str" /\ NumericText(raw[f].s)

\* The numeric fields of an emitted record whose raw value is no number are 0.
InvalidNumbersAreZero(raw, out, fields) ==
    \A f \in fields : ~IsNumber(raw, f) => out[f] = PyInt(0)

\* C5: whatever the raw mappings hold, the batch loops of
\* transform_spotify_tracks and transform_youtube_videos go through every
\* record and emit only transformed records, never an exception; and in an
\* emitted record a numeric field (popularity, duration_ms, the view, like,
\* dislike, comment and favorite counts) whose raw value is not a valid
\* number is 0.  Emitted records are paired with their raw records while no
\* record of the batch has been dropped.
C5_NeverRaisesInvalidNumbersZero ==
    /\ tracks_taken <= Len(raw_tracks) /\ videos_taken <= Len(raw_videos)
    /\ \A i \in 1..Len(transformed_tracks) : ~IsRaise(transformed_tracks[i])
    /\ \A i \in 1..Len(transformed_videos) : ~IsRaise(transformed_videos[i])
    /\ Len(transformed_tracks) = tracks_taken =>
          \A i \in 1..tracks_taken :
             InvalidNumbersAreZero(raw_tracks[i], transformed_tracks[i], TrackNumbers)
    /\ Len(transformed_videos) = videos_taken =>
          \A i \in 1..videos_taken :
             InvalidNumbersAreZero(raw_videos[i], transformed_videos[i], VideoNumbers)

\* A raw track whose popularity is the text "abc" has been emitted with
\* popularity 0.
C5_Witness ==
    /\ tracks_taken = 1
    /\ "popularity" \in DOMAIN raw_tracks[1]
    /\ raw_tracks[1].popularity = PyStr(<<"a", "b", "c">>)
    /\ Len(transformed_tracks) = 1
    /\ transformed_tracks[1].popularity = PyInt(0)

\* The transformed records of those of the first n raw tracks (videos) that
\* transform.
RECURSIVE SurvivingTracks(_, _)
SurvivingTracks(raw, n) ==
    IF n = 0 THEN <<>>
    ELSE LET t == TransformTrack(raw[n])
         IN  IF IsRaise(t) THEN SurvivingTracks(raw, n - 1)
             ELSE Append(SurvivingTracks(raw, n - 1), t)
RECURSIVE SurvivingVideos(_, _)
SurvivingVideos(raw, n) ==
    IF n = 0 THEN <<>>
    ELSE LET v == TransformVideo(raw[n])
         IN  IF IsRaise(v) THEN SurvivingVideos(raw, n - 1)
             ELSE Append(SurvivingVideos(raw, n - 1), v)

\* C6: best-effort batch semantics: at every point of a batch the output is,
\* in input order, the transformed records of exactly those raw records that
\* transformed without raising; a record that raises is the only one missing
\* and the loop goes on to the end of the batch.
C6_BestEffortBatch ==
    /\ tracks_taken <= Len(raw_tracks) /\ videos_taken <= Len(raw_videos)
    /\ transformed_tracks = SurvivingTracks(raw_tracks, tracks_taken)
    /\ transformed_videos = SurvivingVideos(raw_videos, videos_taken)

\* A batch of three whose second record raised and whose third was emitted.
C6_Witness ==
    /\ Len(raw_tracks) = 3 /\ tracks_taken = 3
    /\ IsRaise(TransformTrack(raw_tracks[2]))
    /\ Len(transformed_tracks) = 2
    /\ transformed_tracks[2] = TransformTrack(raw_tracks[3])

\* The text fields of a raw record that are absent or null are the empty
\* text in the emitted record.
TextDefaults(raw, out, fields) ==
    \A f \in fields :
       (f \notin DOMAIN raw \/ raw[f] = PyNone) => out[f] = PyStr(<<>>)

\* C7 as the specification states it: a raw record with a field absent, null
\* or of the wrong type is still emitted, the field resolved to its default;
\* no record is dropped.  The code drops a track whose name is null.
C7_InvalidFieldNeverDrops ==
    /\ Len(transformed_tracks) = tracks_taken
    /\ Len(transformed_videos) = videos_taken
    /\ \A i \in 1..Len(transformed_tracks) :
          TextDefaults(raw_tracks[i], transformed_tracks[i],
                       {"name", "artist_name", "album_name"})
    /\ \A i \in 1..Len(transformed_videos) :
          TextDefaults(raw_videos[i], transformed_videos[i],
                       {"title", "description", "channel_title"})

-----------------------------------------------------------------------------
(* Claims about the Regional Aggregator, checked under SpecRegion.         *)

\* The sum of the int field f over the dicts of a sequence.
RECURSIVE SumOf(_, _)
SumOf(dicts, f) ==
    IF dicts = <<>> THEN 0 ELSE dicts[1][f].n + SumOf(Tail(dicts), f)

\* The totals of the bucket at position i, zero when there is none yet.
TotalsAt(data, i, f) == IF i <= Len(data) THEN data[i][f].n ELSE 0

\* One iteration of the fold adds the video to the bucket of its own region,
\* a new last bucket when the region is new, and leaves every other bucket
\* as it was.
FoldStep ==
    (agg_pc = "fold" /\ vid' = vid + 1 /\ agg_pc' = "fold") =>
       \E i \in 1..Len(regional_data') :
          /\ Len(regional_data') = Max(Len(regional_data), i)
          /\ i <= Len(regional_data) + 1
          /\ regional_data'[i].region_code = youtube_videos[vid'].source_region
          /\ regional_data'[i].total_videos.n
                = TotalsAt(regional_data, i, "total_videos") + 1
          /\ regional_data'[i].total_views.n
                = TotalsAt(regional_data, i, "total_views")
                    + youtube_videos[vid'].view_count.n
          /\ \A j \in 1..Len(regional_data) :
                j # i => regional_data'[j] = regional_data[j]

\* The totals of the buckets add up to those of the videos folded so far,
\* and those returned to those of all the videos.
FoldTotals ==
    /\ agg_pc = "fold" /\ reg = 0 =>
          /\ SumOf(regional_data, "total_views")
                = SumOf(SubSeq(youtube_videos, 1, vid), "view_count")
          /\ SumOf(regional_data, "total_videos") = vid
    /\ agg_pc = "done" =>
          /\ SumOf(aggregated_data, "total_views") = SumOf(youtube_videos, "view_count")
          /\ SumOf(aggregated_data, "total_videos") = Len(youtube_videos)

\* C8: the regional aggregation is one left-to-right fold: each video adds
\* 1 to total_videos and its view_count to total_views of exactly the bucket
\* of its own region and leaves the other buckets unchanged; so the sum of
\* total_views over the returned aggregates is the sum of view_count over
\* the videos, and the sum of total_videos is the number of videos.
C8_RegionalFold == [][FoldStep]_vars /\ []FoldTotals

\* Three videos with views have been aggregated into two regions.
C8_Witness ==
    /\ agg_pc = "done"
    /\ Len(youtube_videos) = 3
    /\ Len(aggregated_data) = 2
    /\ \A n \in 1..2 : aggregated_data[n].total_views.n > 0

\* The raw videos without source_region that the Normalizer emits.
LackingRegion ==
    {i \in 1..Len(raw_videos) :
        "source_region" \notin DOMAIN raw_videos[i]
        /\ ~IsRaise(TransformVideo(raw_videos[i]))}

\* C9 as the specification states it: one aggregate is returned per distinct
\* region code observed, and the videos transformed from raw videos without
\* a source_region are counted in the bucket whose region_code is "unknown".
\* The code counts them in a bucket whose region_code is the empty text.
C9_UnknownBucket ==
    agg_pc = "done" =>
       /\ \A m, n \in 1..Len(aggregated_data) :
             m # n => ~KeyEq(aggregated_data[m].region_code,
                             aggregated_data[n].region_code)
       /\ \A i \in 1..Len(youtube_videos) : \E n \in 1..Len(aggregated_data) :
             KeyEq(aggregated_data[n].region_code, youtube_videos[i].source_region)
       /\ LackingRegion # {} =>
             \E n \in 1..Len(aggregated_data) :
                /\ aggregated_data[n].region_code = Unknown
                /\ aggregated_data[n].total_videos.n = Cardinality(LackingRegion)

\* The (key, count) pairs of the field f over the videos vs: the keys ranked
\* by count, a key of equal count and earlier first occurrence first, and
\* the first 5 of them.
ClaimedTop(vs, f) ==
    LET Firsts == {i \in 1..Len(vs) : \A j \in 1..(i - 1) : ~KeyEq(vs[j][f], vs[i][f])}
        cnt(i) == Cardinality({j \in 1..Len(vs) : KeyEq(vs[j][f], vs[i][f])})
        rank(i) == 1 + Cardinality({j \in Firsts :
                                      cnt(j) > cnt(i) \/ (cnt(j) = cnt(i) /\ j < i)})
    IN  [p \in 1..Min(5, Cardinality(Firsts)) |->
           LET i == CHOOSE i \in Firsts : rank(i) = p
           IN  <<vs[i][f], PyInt(cnt(i))>>]

\* The videos counted under the region code.
VideosOfRegion(code) ==
    SelectSeq(youtube_videos, LAMBDA v : KeyEq(v.source_region, code))

\* C10: in every returned aggregate top_5_channels, and likewise
\* top_5_categories, lists at most 5 (key, count) pairs: the keys of the
\* region's videos with the highest occurrence counts, in descending order
\* of count and keys of equal count in the order first seen; the working
\* counters top_channels and top_categories are not in the aggregate.
C10_TopFive ==
    agg_pc = "done" =>
       \A n \in 1..Len(aggregated_data) :
          \A vs \in {VideosOfRegion(aggregated_data[n].region_code)} :
             /\ aggregated_data[n].top_5_channels = ClaimedTop(vs, "channel_title")
             /\ aggregated_data[n].top_5_categories = ClaimedTop(vs, "category_id")
             /\ Len(aggregated_data[n].top_5_channels) <= 5
             /\ "top_channels" \notin DOMAIN aggregated_data[n]
             /\ "top_categories" \notin DOMAIN aggregated_data[n]

\* A region of six channels: five are listed, the first one listed was not
\* the first one seen, and two of equal count follow it.
C10_Witness ==
    /\ agg_pc = "done"
    /\ Len(aggregated_data) = 1
    /\ Cardinality({youtube_videos[i].channel_title : i \in 1..Len(youtube_videos)}) = 6
    /\ Len(aggregated_data[1].top_5_channels) = 5
    /\ aggregated_data[1].top_5_channels[1][1] # youtube_videos[1].channel_title
    /\ aggregated_data[1].top_5_channels[1][2].n > aggregated_data[1].top_5_channels[2][2].n
    /\ aggregated_data[1].top_5_channels[2][2] = aggregated_data[1].top_5_channels[3][2]

-----------------------------------------------------------------------------
(* Further claims about the Correlator, checked under SpecCorr.            *)

\* The track of the scenario has been correlated with one video of it.
HelloCorrelated ==
    /\ trk = 1
    /\ spotify_tracks \in {<<t>> : t \in HelloTracks}
    /\ youtube_videos \in {<<v>> : v \in HelloVideos}

\* C11 as the specification states it: for the track "Hello" of "Adele" and
\* the video "Adele - Hello (Official Video)" without search metadata the
\* artist is in the title, the score is greater than 0.7, and correlate
\* emits exactly one correlation, strong or very_strong, whose
\* duration_difference_seconds comes from the video's parsed duration.  The
\* code scores the pair 0.5 and emits a moderate correlation.
C11_HelloScenario ==
    HelloCorrelated =>
       /\ IsSubstring(LowerText(spotify_tracks[1].artist_name.s),
                      LowerText(youtube_videos[1].title.s))
       /\ Len(correlations) = 1
       /\ FLess(PyFloat(7, 10), correlations[1].similarity_score)
       /\ correlations[1].correlation_strength
             \in {PyStr("strong"), PyStr("very_strong")}
       /\ correlations[1].duration_difference_seconds
             = PyInt(Abs(295 - youtube_videos[1].duration_seconds.n))

-----------------------------------------------------------------------------
(* Audio features: transform_spotify_features                              *)

Pow10(n) == IF n = 0 THEN 1 ELSE IF n = 1 THEN 10 ELSE IF n = 2 THEN 100 ELSE 1000

\* float(v).  Of a text: an integer literal, or digits, a point and at most
\* three digits (the texts of the model hold no exponent, inf or nan).
FloatOf(v) ==
    CASE v.k = "int" -> PyFloat(v.n, 1)
      [] v.k = "bool" -> PyFloat(IF v.b THEN 1 ELSE 0, 1)
      [] v.k = "float" -> v
      [] v.k = "inf" -> v
      [] v.k = "str" ->
            LET t == Strip(v.s)
                dots == {i \in 1..Len(t) : t[i] = "."}
            IN  IF ~IsRaise(IntOf(v)) THEN PyFloat(IntOf(v).n, 1)
                ELSE IF \E i \in dots :
                           /\ AllDigits(SubSeq(t, 1, i - 1))
                           /\ AllDigits(SubSeq(t, i + 1, Len(t)))
                           /\ Len(t) - i <= 3
                THEN LET i == CHOOSE i \in dots : TRUE
                     IN  PyFloat(DigitsValue(SubSeq(t, 1, i - 1)) * Pow10(Len(t) - i)
                                    + DigitsValue(SubSeq(t, i + 1, Len(t))),
                                 Pow10(Len(t) - i))
                ELSE Raise("ValueError")
      [] v.k \in {"none", "list"} -> Raise("TypeError")

_safe_float(value) ==
    IF value = PyNone THEN PyFloat(0, 1)
    ELSE LET r == FloatOf(value)
         IN  IF IsRaise(r) /\ r.e \in {"ValueError", "TypeError"} THEN PyFloat(0, 1)
             ELSE r

\* Arithmetic of finite floats, as exact fractions.
FAdd(x, y) == PyFloat(x.n * y.d + y.n * x.d, x.d * y.d)
FMul(x, y) == PyFloat(x.n * y.n, x.d * y.d)
FSub(x, y) == PyFloat(x.n * y.d - y.n * x.d, x.d * y.d)

_categorize_audio_features(features) ==
    LET energy == Get(features, "energy", PyFloat(0, 1))
        valence == Get(features, "valence", PyFloat(0, 1))
        danceability == Get(features, "danceability", PyFloat(0, 1))
    IN  [energy_level |->
            PyStr(IF FLeq(PyFloat(8, 10), energy) THEN "very_high"
                  ELSE IF FLeq(PyFloat(6, 10), energy) THEN "high"
                  ELSE IF FLeq(PyFloat(4, 10), energy) THEN "medium"
                  ELSE IF FLeq(PyFloat(2, 10), energy) THEN "low"
                  ELSE "very_low"),
         mood |->
            PyStr(IF FLeq(PyFloat(8, 10), valence) THEN "very_positive"
                  ELSE IF FLeq(PyFloat(6, 10), valence) THEN "positive"
                  ELSE IF FLeq(PyFloat(4, 10), valence) THEN "neutral"
                  ELSE IF FLeq(PyFloat(2, 10), valence) THEN "negative"
                  ELSE "very_negative"),
         danceability_level |->
            PyStr(IF FLeq(PyFloat(8, 10), danceability) THEN "very_danceable"
                  ELSE IF FLeq(PyFloat(6, 10), danceability) THEN "danceable"
                  ELSE IF FLeq(PyFloat(4, 10), danceability) THEN "moderate"
                  ELSE "not_danceable")]

\* The dict literal of lines 131-159.  Left out are loudness and tempo,
\* coerced like the features that are kept, the extraction metadata and
\* transformed_at.
FeatureFields(feature) ==
    [track_id |-> Get(feature, "id", PyStr(<<>>)),
     danceability |-> _safe_float(Get(feature, "danceability", PyFloat(0, 1))),
     energy |-> _safe_float(Get(feature, "energy", PyFloat(0, 1))),
     speechiness |-> _safe_float(Get(feature, "speechiness", PyFloat(0, 1))),
     acousticness |-> _safe_float(Get(feature, "acousticness", PyFloat(0, 1))),
     instrumentalness |-> _safe_float(Get(feature, "instrumentalness", PyFloat(0, 1))),
     liveness |-> _safe_float(Get(feature, "liveness", PyFloat(0, 1))),
     valence |-> _safe_float(Get(feature, "valence", PyFloat(0, 1))),
     key |-> _safe_int(Get(feature, "key", PyInt(-1))),
     mode |-> _safe_int(Get(feature, "mode", PyInt(-1))),
     time_signature |-> _safe_int(Get(feature, "time_signature", PyInt(4))),
     duration_ms |-> _safe_int(Get(feature, "duration_ms", PyInt(0)))]

\* Lines 161-176: the categories and the two scores.
FeatureDerived(d) ==
    [dance_score |->
        FAdd(FAdd(FMul(d.danceability, PyFloat(4, 10)), FMul(d.energy, PyFloat(3, 10))),
             FMul(d.valence, PyFloat(3, 10))),
     mood_score |->
        FAdd(FAdd(FMul(d.valence, PyFloat(5, 10)), FMul(d.energy, PyFloat(3, 10))),
             FMul(FSub(PyFloat(1, 1), d.acousticness), PyFloat(2, 10)))]

MergeFeature(d, categories, scores) ==
    [f \in DOMAIN d \cup DOMAIN categories \cup DOMAIN scores |->
        IF f \in DOMAIN scores THEN scores[f]
        ELSE IF f \in DOMAIN categories THEN categories[f]
        ELSE d[f]]

EnrichFeature(d) ==
    IF AnyRaise(d) THEN Raise("Exception")
    ELSE MergeFeature(d, _categorize_audio_features(d), FeatureDerived(d))

\* The body of the try of transform_spotify_features for one raw feature.
TransformFeature(feature) == EnrichFeature(FeatureFields(feature))

-----------------------------------------------------------------------------
(* The four functions of the transformer, each as one call                 *)

Kept(out) == SelectSeq(out, LAMBDA r : ~IsRaise(r))

transform_spotify_tracks(raw) == Kept([i \in 1..Len(raw) |-> TransformTrack(raw[i])])

transform_spotify_features(raw) == Kept([i \in 1..Len(raw) |-> TransformFeature(raw[i])])

transform_youtube_videos(raw) == Kept([i \in 1..Len(raw) |-> TransformVideo(raw[i])])

\* The correlations one track adds to acc: those of its related videos, or
\* none when the Matcher raised.
CorrelationsWith(acc, track, found) ==
    IF IsRaise(found) THEN acc ELSE AppendCorrelations(acc, track, found.l).out

RECURSIVE CorrelateFrom(_, _, _)
CorrelateFrom(acc, tracks, videos) ==
    IF tracks = <<>> THEN acc
    ELSE CorrelateFrom(CorrelationsWith(acc, tracks[1],
                                        _find_related_videos(tracks[1], videos)),
                       Tail(tracks), videos)

correlate_spotify_youtube_data(tracks, videos) == CorrelateFrom(<<>>, tracks, videos)

\* regional_data with the region of the video added when it is new.
WithRegion(data, region) ==
    IF RegionIndex(data, region) # 0 THEN data ELSE Append(data, NewRegion(region))

CountVideo(data, video) ==
    [data EXCEPT ![RegionIndex(data, RegionOf(video))] = UpdateRegion(@, video)]

\* The first loop of aggregate_regional_data; raised when a key is unhashable.
RECURSIVE FoldRegions(_, _)
FoldRegions(data, videos) ==
    IF videos = <<>> THEN [raised |-> FALSE, data |-> data]
    ELSE IF ~(Hashable(RegionOf(videos[1])) /\ Hashable(ChannelOf(videos[1]))
                                            /\ Hashable(CategoryOf(videos[1])))
    THEN [raised |-> TRUE, data |-> data]
    ELSE FoldRegions(CountVideo(WithRegion(data, RegionOf(videos[1])), videos[1]),
                     Tail(videos))

FinalizeAll(data) ==
    [i \in 1..Len(data) |-> Finalize(data[i])]

\* The result of aggregate_regional_data: raised tells that it raised.
aggregate_regional_data(videos) ==
    [raised |-> FoldRegions(<<>>, videos).raised,
     data |-> FinalizeAll(SelectSeq(FoldRegions(<<>>, videos).data,
                                    LAMBDA stats : stats.total_videos.n > 0))]

-----------------------------------------------------------------------------
(* The pipeline of main.py: extraction, transformation, loading            *)

MaxApiTracks == 2      \* raw tracks the playlists return
MaxApiVideos == 2      \* raw videos the popular-by-region request returns

EmptyDict == <<>>

\* d.get('data') of one entry of the extraction results, [] when missing.
DataOf(d) == IF "data" \in DOMAIN d THEN d.data ELSE <<>>

\* key in extracted_data and extracted_data[key].get('data'): the list, or
\* [] when the test fails.
Section(data, key) == IF key \in DOMAIN data THEN DataOf(data[key]) ELSE <<>>

\* [pid.strip() for pid in config['spotify_playlists'] if pid.strip()]
PlaylistIds(cfg) == SelectSeq(cfg.spotify_playlists, LAMBDA pid : pid # "")

\* extract_all_data: the results dict, given what the four requests return.
\* A track without track_id ends the try before the features are stored; a
\* track without artist_name or name ends it before the searched videos are.
ExtractAll(cfg, tracks, features, popular, music) ==
    LET some == PlaylistIds(cfg) # <<>> /\ tracks # <<>>
        no_id == some /\ \E i \in 1..Len(tracks) : "track_id" \notin DOMAIN tracks[i]
        no_query == some /\ \E i \in 1..Len(tracks) :
                               ~({"artist_name", "name"} \subseteq DOMAIN tracks[i])
    IN  [spotify_tracks |->
             IF PlaylistIds(cfg) # <<>> THEN [data |-> tracks] ELSE EmptyDict,
         spotify_features |->
             IF some /\ ~no_id THEN [data |-> features] ELSE EmptyDict,
         youtube_popular |->
             IF ~no_id /\ cfg.youtube_regions # <<>> THEN [data |-> popular]
             ELSE EmptyDict,
         youtube_music |->
             IF some /\ ~no_id /\ ~no_query THEN [data |-> music] ELSE EmptyDict]

\* The dict _run_transformation builds from the raw lists it found: a key
\* is set when its test passed.  raised tells that aggregate_regional_data
\* raised, which leaves the try.
BuildTransformed(cfg, t, f, v) ==
    LET entries ==
            [spotify_tracks |-> [has |-> t # <<>>, v |-> transform_spotify_tracks(t)],
             spotify_features |->
                 [has |-> f # <<>>, v |-> transform_spotify_features(f)],
             youtube_videos |-> [has |-> v # <<>>, v |-> transform_youtube_videos(v)],
             correlated_data |->
                 [has |-> cfg.enable_correlation /\ t # <<>> /\ v # <<>>,
                  v |-> correlate_spotify_youtube_data(transform_spotify_tracks(t),
                                                       transform_youtube_videos(v))],
             regional_data |->
                 [has |-> cfg.enable_regional_analysis /\ v # <<>>,
                  v |-> aggregate_regional_data(transform_youtube_videos(v)).data]]
    IN  [raised |-> /\ cfg.enable_regional_analysis /\ v # <<>>
                    /\ aggregate_regional_data(transform_youtube_videos(v)).raised,
         data |-> [key \in {key \in DOMAIN entries : entries[key].has} |->
                      entries[key].v]]

\* _run_transformation: the raw lists are looked up in extracted_data under
\* spotify_tracks, spotify_features, youtube_videos and youtube_music_videos.
Transformation(cfg, data) ==
    BuildTransformed(cfg,
                     Section(data, "spotify_tracks"),
                     IF cfg.enable_audio_features THEN Section(data, "spotify_features")
                     ELSE <<>>,
                     Section(data, "youtube_videos")
                        \o Section(data, "youtube_music_videos"))

(* Requests' answers *)

BaseRawFeature ==
    [id |-> PyStr(<<"t", "1">>),
     danceability |-> PyFloat(7, 10),
     energy |-> PyFloat(8, 10),
     acousticness |-> PyFloat(1, 10),
     valence |-> PyFloat(1, 2),
     key |-> PyInt(5),
     mode |-> PyInt(0),
     time_signature |-> PyInt(4),
     duration_ms |-> PyInt(200000)]

ApiTracks == SeqsUpTo({BaseRawTrack, HelloRawTrack}, MaxApiTracks)
\* What the audio-features request may answer for a track: the seven
\* perceptual values, the key, the mode and the time signature may each be
\* missing, null, of another type or outside its range.
FeatureFieldValues ==
    [danceability |-> {Absent, PyNone, PyStr(<<"a", "b", "c">>), PyInt(1)},
     energy |-> {PyFloat(3, 2), PyStr(<<"0", ".", "8">>)},
     speechiness |-> {PyFloat(1, 20)},
     acousticness |-> {PyFloat(-1, 2)},
     instrumentalness |-> {PyInt(0)},
     liveness |-> {PyInt(2)},
     valence |-> {PyNone, PyFloat(1, 1)},
     key |-> {Absent, PyNone, PyStr(<<"a", "b", "c">>), PyInt(0), PyInt(11)},
     mode |-> {Absent, PyNone, PyList(<<>>), PyInt(1)},
     time_signature |-> {Absent, PyNone, PyStr(<<"a", "b", "c">>), PyInt(3)}]
ApiFeatureAnswers ==
    {BaseRawFeature}
    \cup {With(BaseRawFeature, f, v) :
            <<f, v>> \in UNION {{f} \X FeatureFieldValues[f] :
                                   f \in DOMAIN FeatureFieldValues}}
ApiFeatures == SeqsUpTo(ApiFeatureAnswers, 1)
ApiPopular ==
    SeqsUpTo({BaseRawVideo, With(BaseRawVideo, "source_region", PyStr(<<"U", "S">>))},
             MaxApiVideos)
ApiMusic ==
    SeqsUpTo({With(With(HelloRawVideo, "search_artist", PyStr(<<"A", "d", "e", "l", "e">>)),
                   "search_track", PyStr(<<"H", "e", "l", "l", "o">>))}, 1)

\* The configuration: the playlists and regions of the environment (an
\* unset playlist variable gives ['']; run_spotify_only empties the
\* regions) and the three switches.
Configs ==
    [spotify_playlists : {<<"">>, <<"p1">>},
     youtube_regions : {<<>>, <<"BR", "US">>},
     enable_audio_features : BOOLEAN,
     enable_correlation : BOOLEAN,
     enable_regional_analysis : BOOLEAN]

\* The dict run_full_pipeline starts with, main.py lines 144-154: no stage
\* has a result yet, and the key end_time is not set.
NewResult ==
    [success |-> FALSE,
     stages |-> [extraction |-> "pending", transformation |-> "pending",
                 loading |-> "pending"],
     errors |-> <<>>,
     end_time |-> Absent]

\* A stage's result is stored; when it reports no success the Exception
\* raised for it is caught at line 185 and its text appended to errors.
StageSucceeded(result, name) == [result EXCEPT !.stages[name] = "success"]
StageFailed(result, name, error) ==
    [result EXCEPT !.stages[name] = "failure", !.errors = Append(@, error)]

\* An extraction whose failure is not looked at.
ExtractionUnchecked(tracks_from, features_from, popular_from, music_from) ==
    /\ stage = "extraction"
    /\ \E raises \in BOOLEAN, tracks \in tracks_from, features \in features_from,
          popular \in popular_from, music \in music_from :
          IF raises
          THEN /\ extracted_data' = EmptyDict
               /\ pipeline_result' = [pipeline_result EXCEPT !.stages.extraction = "failure"]
          ELSE /\ extracted_data' = ExtractAll(config, tracks, features, popular, music)
               /\ pipeline_result' = StageSucceeded(pipeline_result, "extraction")
    /\ stage' = "transformation"
    /\ UNCHANGED <<config, transformed_data, loaded>>
    /\ UNCHANGED <<normVars, videoVars, corrVars, youtube_videos, aggVars>>

\* _run_extraction and lines 158-163: extract_all_data catches what its
\* requests raise, so the stage succeeds with what was stored; when the call
\* itself raises, the stage reports no success and run_full_pipeline raises
\* "Falha na etapa de extração" into its own except.  The four requests
\* answer with one of tracks_from, features_from, popular_from, music_from.
Extraction(tracks_from, features_from, popular_from, music_from) ==
    /\ stage = "extraction"
    /\ \E raises \in BOOLEAN, tracks \in tracks_from, features \in features_from,
          popular \in popular_from, music \in music_from :
          IF raises
          THEN /\ extracted_data' = EmptyDict
               /\ pipeline_result' =
                     StageFailed(pipeline_result, "extraction", "Falha na etapa de extracao")
               /\ stage' = "failed"
          ELSE /\ extracted_data' = ExtractAll(config, tracks, features, popular, music)
               /\ pipeline_result' = StageSucceeded(pipeline_result, "extraction")
               /\ stage' = "transformation"
    /\ UNCHANGED <<config, transformed_data, loaded>>
    /\ UNCHANGED <<normVars, videoVars, corrVars, youtube_videos, aggVars>>

RunExtraction == Extraction(ApiTracks, ApiFeatures, ApiPopular, ApiMusic)

\* The extraction of a run whose audio-features request answers nothing or
\* the features of one track.
RunExtractionPlain ==
    Extraction(ApiTracks, SeqsUpTo({BaseRawFeature}, 1), ApiPopular, ApiMusic)

\* _run_transformation and lines 165-171: the stage reports no success when
\* the regional aggregation or another call of the transformer raises, and
\* run_full_pipeline gives up.
RunTransformation ==
    /\ stage = "transformation"
    /\ \/ /\ transformed_data' = EmptyDict
          /\ pipeline_result' =
                StageFailed(pipeline_result, "transformation",
                            "Falha na etapa de transformacao")
          /\ stage' = "failed"
       \/ \E result \in {Transformation(config, extracted_data)} :
             /\ ~result.raised
             /\ transformed_data' = result.data
             /\ pipeline_result' = StageSucceeded(pipeline_result, "transformation")
             /\ stage' = "loading"
    /\ UNCHANGED <<config, extracted_data, loaded>>
    /\ UNCHANGED <<normVars, videoVars, corrVars, youtube_videos, aggVars>>

\* _run_loading and lines 173-182: load_all_data loads each collection that
\* is a key of transformed_data; the database decides whether it succeeds.
\* After a successful load the result's success is set.
RunLoading ==
    /\ stage = "loading"
    /\ loaded' = DOMAIN transformed_data
    /\ \E success \in BOOLEAN :
          IF success
          THEN /\ pipeline_result' =
                     [StageSucceeded(pipeline_result, "loading") EXCEPT !.success = TRUE]
               /\ stage' = "done"
          ELSE /\ pipeline_result' =
                     StageFailed(pipeline_result, "loading", "Falha na etapa de carga")
               /\ stage' = "failed"
    /\ UNCHANGED <<config, extracted_data, transformed_data>>
    /\ UNCHANGED <<normVars, videoVars, corrVars, youtube_videos, aggVars>>

\* Lines 189-195, after the try: end_time is set, the result logged and
\* returned.
ReturnResult ==
    /\ stage \in {"done", "failed"}
    /\ pipeline_result' = [pipeline_result EXCEPT !.end_time = PyStr(<<"t">>)]
    /\ stage' = "returned"
    /\ UNCHANGED <<config, extracted_data, transformed_data, loaded>>
    /\ UNCHANGED <<normVars, videoVars, corrVars, youtube_videos, aggVars>>

InitPipe ==
    /\ config \in Configs
    /\ extracted_data = EmptyDict /\ transformed_data = EmptyDict
    /\ loaded = {} /\ stage = "extraction"
    /\ pipeline_result = NewResult
    /\ NormIdle /\ VideoIdle /\ CorrIdle /\ youtube_videos = <<>> /\ AggIdle

NextPipe == RunExtraction \/ RunTransformation \/ RunLoading \/ ReturnResult

SpecPipe == InitPipe /\ [][NextPipe]_vars

\* run_full_pipeline is one sequential call: whenever it has a next
\* statement, it executes it.
NextPipeFair == RunExtractionPlain \/ RunTransformation \/ RunLoading \/ ReturnResult

SpecPipeFair == InitPipe /\ [][NextPipeFair]_vars /\ WF_vars(NextPipeFair)

-----------------------------------------------------------------------------
(* Claims about the pipeline, checked under SpecPipe                       *)

\* The raw videos extraction returned, popular ones first.
ExtractedVideos ==
    Section(extracted_data, "youtube_popular") \o Section(extracted_data, "youtube_music")

\* C12 as the specification states it: in a run with correlation and
\* regional analysis enabled whose extraction returned at least one raw
\* track and at least one raw video, what the transformation stage hands to
\* loading holds the normalized tracks, the normalized videos, the
\* correlations of the two and the regional aggregates of the videos.  The
\* code looks the videos up under keys extraction never sets, so no video
\* is normalized.
C12_AllCollectionsProduced ==
    (/\ stage \in {"loading", "done"}
     /\ config.enable_correlation /\ config.enable_regional_analysis
     /\ Section(extracted_data, "spotify_tracks") # <<>>
     /\ ExtractedVideos # <<>>)
    => /\ {"spotify_tracks", "youtube_videos", "correlated_data", "regional_data"}
             \subseteq DOMAIN transformed_data
       /\ transformed_data.youtube_videos = transform_youtube_videos(ExtractedVideos)
       /\ stage = "done" => loaded = DOMAIN transformed_data

-----------------------------------------------------------------------------
(* Further claims about the Normalizer, checked under SpecNorm            *)

DerivedTrackFields ==
    {"popularity_category", "duration_category", "duration_seconds", "market_count",
     "artist_count", "is_collaboration", "name_length", "artist_name_length"}
DerivedVideoFields ==
    {"like_rate", "comment_rate", "engagement_rate", "engagement_score",
     "view_category", "duration_category", "duration_seconds", "is_music_video",
     "is_official", "tag_count", "title_length", "description_length"}
DerivedFeatureFields ==
    {"energy_level", "mood", "danceability_level", "dance_score", "mood_score"}

\* The second pass over the record out did not raise and gave the same
\* value for each of the fields.
SameDerived(out, again, fields) ==
    /\ ~IsRaise(again)
    /\ \A f \in fields : again[f] = out[f]

RawFeatureInputs ==
    {BaseRawFeature,
     With(BaseRawFeature, "energy", PyStr(<<"0", ".", "8">>)),
     With(BaseRawFeature, "valence", PyNone),
     With(BaseRawFeature, "danceability", PyInt(1)),
     With(BaseRawFeature, "acousticness", PyStr(<<"a", "b", "c">>))}

\* C13 as the specification states it: a record the Normalizer emitted,
\* given to the same function again, comes out with the same derived fields
\* (categories, duration_seconds, rates, scores, flags, counts and lengths).
\* The code takes name_length and artist_name_length of a track from the
\* text before it is cleaned, so they change on the second pass.
C13_EnrichmentIdempotent ==
    /\ \A i \in 1..Len(transformed_tracks) :
          SameDerived(transformed_tracks[i], TransformTrack(transformed_tracks[i]),
                      DerivedTrackFields)
    /\ \A i \in 1..Len(transformed_videos) :
          SameDerived(transformed_videos[i], TransformVideo(transformed_videos[i]),
                      DerivedVideoFields)
    /\ \A feature \in RawFeatureInputs :
          SameDerived(TransformFeature(feature),
                      TransformFeature(TransformFeature(feature)),
                      DerivedFeatureFields)

\* The popularity bin the specification gives for a popularity of 0..100.
ClaimedPopularityBin(p) ==
    CASE p \in 0..19 -> "very_low"
      [] p \in 20..39 -> "low"
      [] p \in 40..59 -> "medium"
      [] p \in 60..79 -> "high"
      [] p \in 80..MaxPopularity -> "very_high"

\* C14: a track whose popularity is an integer of 0..100 is emitted with the
\* popularity category very_low below 20, low for 20-39, medium for 40-59,
\* high for 60-79 and very_high from 80 on.
C14_PopularityBins ==
    \A i \in 1..Len(transformed_tracks) :
       transformed_tracks[i].popularity.n \in 0..MaxPopularity
       => transformed_tracks[i].popularity_category
             = PyStr(ClaimedPopularityBin(transformed_tracks[i].popularity.n))

\* A track of popularity 80, the lowest of the highest bin, was emitted.
C14_Witness ==
    /\ Len(raw_tracks) = 1 /\ Len(transformed_tracks) = 1
    /\ Get(raw_tracks[1], "popularity", PyNone) = PyInt(80)
    /\ transformed_tracks[1].popularity_category = PyStr("very_high")

\* The one raw video given and the one video emitted for it.
OneVideo ==
    Len(raw_videos) = 1 /\ videos_taken = 1 /\ Len(transformed_videos) = 1

\* 3600 h + 60 m + s, a component that is left out counting 0.
ClaimedSeconds(h, m, s) ==
    3600 * Max(h, 0) + 60 * Max(m, 0) + Max(s, 0)

\* C15: a duration PT[h H][m M][s S] is parsed to 3600 h + 60 m + s seconds;
\* a text without a component, an empty text and a missing duration give 0;
\* the result is never negative.
C15_DurationSeconds ==
    /\ \A i \in 1..Len(transformed_videos) :
          transformed_videos[i].duration_seconds.n >= 0
    /\ OneVideo =>
          /\ \A c \in IsoParts :
                Get(raw_videos[1], "duration", PyNone) = PyStr(IsoDuration(c[1], c[2], c[3]))
                => transformed_videos[1].duration_seconds
                      = PyInt(ClaimedSeconds(c[1], c[2], c[3]))
          /\ Get(raw_videos[1], "duration", PyStr(<<>>))
                \in {PyStr(<<>>), PyStr(<<"P", "T">>), PyStr(<<"P", "1", "D">>)}
             => transformed_videos[1].duration_seconds = PyInt(0)

\* PT1H2M3S was parsed to 3723 seconds.
C15_Witness ==
    /\ OneVideo
    /\ Get(raw_videos[1], "duration", PyNone)
          = PyStr(<<"P", "T", "1", "H", "2", "M", "3", "S">>)
    /\ transformed_videos[1].duration_seconds = PyInt(3723)

\* The number x (an int or a finite float) is the quotient n / d, d # 0.
IsQuotient(x, n, d) ==
    /\ x.k \in {"int", "float"}
    /\ x.n * d = n * (IF x.k = "int" THEN 1 ELSE x.d)

\* The number x is min(100, 1000 n / d), d # 0.
IsCappedScore(x, n, d) ==
    IF (d > 0 /\ 1000 * n < 100 * d) \/ (d < 0 /\ 1000 * n > 100 * d)
    THEN IsQuotient(x, 1000 * n, d)
    ELSE IsQuotient(x, 100, 1)

AllRatesZero(v) ==
    /\ IsQuotient(v.like_rate, 0, 1) /\ IsQuotient(v.comment_rate, 0, 1)
    /\ IsQuotient(v.engagement_rate, 0, 1) /\ IsQuotient(v.engagement_score, 0, 1)

RatesAreQuotients(v) ==
    /\ IsQuotient(v.like_rate, v.like_count.n, v.view_count.n)
    /\ IsQuotient(v.comment_rate, v.comment_count.n, v.view_count.n)
    /\ IsQuotient(v.engagement_rate, v.like_count.n + v.comment_count.n, v.view_count.n)
    /\ IsCappedScore(v.engagement_score, v.like_count.n + v.comment_count.n,
                     v.view_count.n)

\* C16 as the specification states it: the four rate fields of an emitted
\* video are 0 when its view_count is 0, and for every other view_count
\* they are likes/views, comments/views, (likes+comments)/views and
\* min(100, 1000 engagement_rate).  A negative view_count, which the code
\* lets through (see C23), gets the rates 0 instead.
C16_RatesAsStated ==
    \A i \in 1..Len(transformed_videos) :
       IF transformed_videos[i].view_count.n = 0
       THEN AllRatesZero(transformed_videos[i])
       ELSE RatesAreQuotients(transformed_videos[i])

-----------------------------------------------------------------------------
(* The Correlator and the Regional Aggregator at work on the same list of  *)
(* normalized videos, their iterations interleaved in any order            *)

SharedVideos ==
    VideosOf({With(V1, "source_region", PyStr(<<"B", "R">>)),
              With(V2, "source_region", PyStr(<<"U", "S">>)),
              With(V3, "source_region", PyStr(<<"B", "R">>)),
              V4})

InitShared ==
    /\ spotify_tracks \in SeqsUpTo(MatchTracks, MaxTracks)
    /\ youtube_videos \in SeqsUpTo(SharedVideos, MaxVideos)
    /\ correlations = <<>> /\ trk = 0 /\ related_videos = PyNone
    /\ regional_data = <<>> /\ aggregated_data = <<>>
    /\ vid = 0 /\ reg = 0 /\ agg_pc = "fold"
    /\ NormIdle /\ VideoIdle /\ PipeIdle

NextShared ==
    \/ CorrelateTrack
    \/ AggregateVideo
    \/ AggregateFinalize
    \/ AggregateReturn

SpecShared == InitShared /\ [][NextShared]_vars

\* No step changes the records the two functions were given.
SharedUnmodified ==
    spotify_tracks' = spotify_tracks /\ youtube_videos' = youtube_videos

\* Once both are through, the results are those of one call of each.
SequentialResults ==
    (trk = Len(spotify_tracks) /\ agg_pc = "done")
    => /\ correlations = correlate_spotify_youtube_data(spotify_tracks, youtube_videos)
       /\ aggregated_data = aggregate_regional_data(youtube_videos).data

\* C17: neither correlate nor aggregate modifies the normalized tracks and
\* videos it is given, and however their per-record steps over the same
\* videos interleave, the correlations and the regional aggregates are those
\* of running the two one after the other.
C17_SharedReadOnly == [][SharedUnmodified]_vars /\ []SequentialResults

\* Both loops are half way through two records each.
C17_Witness ==
    /\ Len(spotify_tracks) = 2 /\ trk = 1 /\ correlations # <<>>
    /\ Len(youtube_videos) = 2 /\ vid = 1 /\ regional_data # <<>>
    /\ agg_pc = "fold"

\* The bins the specification gives: of a popularity, and of a duration in
\* seconds.
ClaimedBinOfPopularity(p) ==
    CASE p < 20 -> "very_low"
      [] p >= 20 /\ p < 40 -> "low"
      [] p >= 40 /\ p < 60 -> "medium"
      [] p >= 60 /\ p < 80 -> "high"
      [] p >= 80 -> "very_high"
ClaimedBinOfDuration(seconds) ==
    CASE seconds < 60 -> "very_short"
      [] seconds >= 60 /\ seconds < 180 -> "short"
      [] seconds >= 180 /\ seconds < 300 -> "medium"
      [] seconds >= 300 /\ seconds < 600 -> "long"
      [] seconds >= 600 -> "very_long"

\* C18: every emitted track has artist_count equal to the length of its
\* artists list, is_collaboration true exactly when artist_count > 1, and
\* popularity_category and duration_category present and equal to the bins
\* of its own popularity and duration_seconds.
C18_TrackInvariants ==
    \A i \in 1..Len(transformed_tracks) :
       /\ transformed_tracks[i].artist_count
             = PyInt(Len(transformed_tracks[i].artists.l))
       /\ transformed_tracks[i].is_collaboration
             = PyBool(transformed_tracks[i].artist_count.n > 1)
       /\ {"popularity_category", "duration_category"}
             \subseteq DOMAIN transformed_tracks[i]
       /\ transformed_tracks[i].popularity_category
             = PyStr(ClaimedBinOfPopularity(transformed_tracks[i].popularity.n))
       /\ transformed_tracks[i].duration_category
             = PyStr(ClaimedBinOfDuration(transformed_tracks[i].duration_seconds.n))

\* A track of two artists was emitted as a collaboration.
C18_Witness ==
    \E i \in 1..Len(transformed_tracks) :
       /\ Len(transformed_tracks[i].artists.l) = 2
       /\ transformed_tracks[i].is_collaboration = PyBool(TRUE)
       /\ transformed_tracks[i].duration_category = PyStr("medium")

\* C19 as the specification states it: every emitted track has an integer
\* popularity between 0 and 100, whatever the raw value was.  The code
\* converts the raw value to an int and keeps it as it is.
C19_PopularityInRange ==
    \A i \in 1..Len(transformed_tracks) :
       /\ transformed_tracks[i].popularity.k = "int"
       /\ transformed_tracks[i].popularity.n \in 0..MaxPopularity

\* The date the specification gives for a raw text of each length.
ClaimedDate(s) ==
    IF Len(s) = 4 THEN s \o <<"-", "0", "1", "-", "0", "1">>
    ELSE IF Len(s) = 7 THEN s \o <<"-", "0", "1">>
    ELSE IF Len(s) >= DateLen THEN Take(s, DateLen)
    ELSE <<>>

\* C20 as the specification states it: the release date of an emitted track
\* whose raw release_date is a text depends on its length only: 4 characters
\* get -01-01 appended, 7 get -01, 10 or more are cut to 10, and a text of any
\* other length gives the empty text.  The code returns a text of any other
\* length as it is.
C20_DateByLength ==
    \A i \in 1..Len(transformed_tracks) :
       (/\ Len(raw_tracks) = 1
        /\ Get(raw_tracks[1], "release_date", PyNone).k = "str")
       => transformed_tracks[i].release_date
             = PyStr(ClaimedDate(raw_tracks[1].release_date.s))

-----------------------------------------------------------------------------
(* Claims about the audio features, checked under SpecPipe                 *)

\* The raw audio features extraction stored, and the records made of them.
RawFeatures == Section(extracted_data, "spotify_features")
EmittedFeatures ==
    IF "spotify_features" \in DOMAIN transformed_data
    THEN transformed_data.spotify_features ELSE <<>>

PerceptualFields ==
    {"danceability", "energy", "speechiness", "acousticness", "instrumentalness",
     "liveness", "valence"}

\* C21 as the specification states it: in every emitted audio-features
\* record each of the seven perceptual values lies in [0,1].  The code
\* converts the raw value to a float and keeps it as it is.
C21_PerceptualRange ==
    \A i \in 1..Len(EmittedFeatures) : \A f \in PerceptualFields :
       /\ EmittedFeatures[i][f].k = "float"
       /\ FLeq(PyFloat(0, 1), EmittedFeatures[i][f])
       /\ FLeq(EmittedFeatures[i][f], PyFloat(1, 1))

\* The one raw audio-features record extracted and the one record emitted.
OneFeature == Len(RawFeatures) = 1 /\ Len(EmittedFeatures) = 1

\* What the specification gives for key, mode or time_signature: the raw
\* integer, or the default when the raw value is missing, null or not an
\* integer.
ClaimedInteger(raw, f, default) ==
    IF f \in DOMAIN raw /\ raw[f].k = "int" THEN raw[f] ELSE PyInt(default)

\* C22 as the specification states it: key and mode are -1 and
\* time_signature is 4 whenever the raw value is absent, null or not
\* coercible to an integer, and a known integer is passed through.  The code
\* uses the default only for an absent key of the mapping; null and values
\* that cannot be converted give 0.
C22_UnknownDefaults ==
    OneFeature =>
       /\ EmittedFeatures[1].key = ClaimedInteger(RawFeatures[1], "key", -1)
       /\ EmittedFeatures[1].mode = ClaimedInteger(RawFeatures[1], "mode", -1)
       /\ EmittedFeatures[1].time_signature
             = ClaimedInteger(RawFeatures[1], "time_signature", 4)

-----------------------------------------------------------------------------
(* More claims about the Normalizer, checked under SpecNorm                *)

CountFields ==
    {"view_count", "like_count", "dislike_count", "comment_count", "favorite_count"}

\* C23 as the specification states it: the five counts of every emitted
\* video are non-negative integers, so its rates are non-negative and its
\* engagement_score lies in [0,100].  The code converts a raw count to an
\* int and keeps a negative one.
C23_CountsNonNegative ==
    \A i \in 1..Len(transformed_videos) :
       /\ \A f \in CountFields :
             /\ transformed_videos[i][f].k = "int"
             /\ transformed_videos[i][f].n >= 0
       /\ \A f \in {"like_rate", "comment_rate", "engagement_rate", "engagement_score"} :
             transformed_videos[i][f].n >= 0
       /\ \/ transformed_videos[i].engagement_score = PyInt(100)
          \/ FLeq(transformed_videos[i].engagement_score, PyFloat(100, 1))

-----------------------------------------------------------------------------
(* More claims about the Aggregator, checked under SpecRegion              *)

\* The averages of a returned region are its totals divided by total_videos,
\* and avg_engagement_rate is (total_likes + total_comments) / total_views,
\* or 0 when total_views is 0.
AveragesAsStated(stats) ==
    /\ IsQuotient(stats.avg_views_per_video, stats.total_views.n, stats.total_videos.n)
    /\ IsQuotient(stats.avg_likes_per_video, stats.total_likes.n, stats.total_videos.n)
    /\ IsQuotient(stats.avg_comments_per_video, stats.total_comments.n,
                  stats.total_videos.n)
    /\ IF stats.total_views.n = 0
       THEN stats.avg_engagement_rate.n = 0
       ELSE IsQuotient(stats.avg_engagement_rate,
                       stats.total_likes.n + stats.total_comments.n,
                       stats.total_views.n)

\* C24 as the specification states it: every region bucket that exists has
\* total_videos >= 1, every returned region has the averages as stated
\* (avg_engagement_rate the quotient unless total_views is 0), and every
\* bucket created is returned.  A region whose total_views is negative (the
\* counts of C23) is returned with avg_engagement_rate 0.
C24_RegionAverages ==
    /\ \A i \in 1..Len(regional_data) : regional_data[i].total_videos.n >= 1
    /\ \A n \in 1..Len(aggregated_data) : AveragesAsStated(aggregated_data[n])
    /\ agg_pc = "done" => Len(aggregated_data) = Len(regional_data)

-----------------------------------------------------------------------------
(* More claims about the Correlator, checked under SpecCorr                *)

\* The bin the specification gives a score: below 0.3, from 0.3, from 0.5,
\* from 0.7, from 0.9.
ClaimedStrength(score) ==
    IF FLess(score, PyFloat(3, 10)) THEN "very_weak"
    ELSE IF FLess(score, PyFloat(5, 10)) THEN "weak"
    ELSE IF FLess(score, PyFloat(7, 10)) THEN "moderate"
    ELSE IF FLess(score, PyFloat(9, 10)) THEN "strong"
    ELSE "very_strong"

\* C25: every emitted Correlation has a similarity_score in (0.3, 1], its
\* correlation_strength is the bin of that score, with the boundaries 0.5,
\* 0.7 and 0.9 in the upper bin, and it is never very_weak.
C25_StrengthOfScore ==
    \A n \in 1..Len(correlations) :
       /\ FLess(PyFloat(3, 10), correlations[n].similarity_score)
       /\ FLeq(correlations[n].similarity_score, PyFloat(1, 1))
       /\ correlations[n].correlation_strength
             = PyStr(ClaimedStrength(correlations[n].similarity_score))
       /\ correlations[n].correlation_strength # PyStr("very_weak")

\* A run that emitted a Correlation whose score is exactly 0.7, as strong,
\* and one of another bin.
C25_Witness ==
    /\ \E n \in 1..Len(correlations) :
          /\ correlations[n].similarity_score = PyFloat(7, 10)
          /\ correlations[n].correlation_strength = PyStr("strong")
    /\ \E n \in 1..Len(correlations) :
          correlations[n].correlation_strength \in {PyStr("weak"), PyStr("very_strong")}

\* The durations a Correlation was built from.
TrackSeconds(c) == c.spotify_duration_seconds.n
VideoSeconds(c) == c.youtube_duration_seconds.n

\* x is 1 - |d_t - d_v| / max(d_t, d_v); neither duration is 0 and the video's
\* is positive.
IsRelativeSimilarity(x, d_t, d_v) ==
    IsQuotient(x, Max(d_t, d_v) - Abs(d_t - d_v), Max(d_t, d_v))

\* What every emitted Correlation has whatever the durations: the absolute
\* difference, a similarity in [0,1], and platform_consistency equal to it.
DurationFields(c) ==
    /\ c.duration_difference_seconds = PyInt(Abs(TrackSeconds(c) - VideoSeconds(c)))
    /\ FLeq(PyFloat(0, 1), c.duration_similarity)
    /\ FLeq(c.duration_similarity, PyFloat(1, 1))
    /\ c.platform_consistency = c.duration_similarity

\* C26 as the specification states it: duration_similarity is
\* 1 - |d_t - d_v| / max(d_t, d_v), or 0 when either duration is 0, for every
\* track duration, a negative one included, and it lies in [0,1].
C26_SimilarityAsStated ==
    \A n \in 1..Len(correlations) :
       /\ DurationFields(correlations[n])
       /\ IF TrackSeconds(correlations[n]) = 0 \/ VideoSeconds(correlations[n]) = 0
          THEN correlations[n].duration_similarity = PyFloat(0, 1)
          ELSE IsRelativeSimilarity(correlations[n].duration_similarity,
                                    TrackSeconds(correlations[n]),
                                    VideoSeconds(correlations[n]))

\* C26 amended: duration_similarity is max(0, 1 - |d_t - d_v| / max(d_t, d_v)),
\* or 0 when either duration is 0: a negative track duration gives 0.  The
\* difference is absolute, the similarity lies in [0,1] and
\* platform_consistency equals it.
C26_SimilarityClamped ==
    \A n \in 1..Len(correlations) :
       /\ DurationFields(correlations[n])
       /\ IF \/ TrackSeconds(correlations[n]) <= 0
             \/ VideoSeconds(correlations[n]) = 0
          THEN correlations[n].duration_similarity = PyFloat(0, 1)
          ELSE IsRelativeSimilarity(correlations[n].duration_similarity,
                                    TrackSeconds(correlations[n]),
                                    VideoSeconds(correlations[n]))

\* A Correlation of a track of negative duration with a video of 3 seconds.
C26_Witness ==
    \E n \in 1..Len(correlations) :
       /\ TrackSeconds(correlations[n]) < 0
       /\ VideoSeconds(correlations[n]) = 3
       /\ correlations[n].duration_difference_seconds = PyInt(5)
       /\ correlations[n].duration_similarity = PyFloat(0, 1)

-----------------------------------------------------------------------------
(* The Correlator called with records that are not all outputs of the      *)
(* Normalizer: correlate_spotify_youtube_data is a public method, and the  *)
(* dict display of lines 306-336 needs keys that _find_related_videos does *)
(* not.                                                                    *)

\* Videos without view_count: the Matcher scores them, building their
\* Correlation raises KeyError.
LackingVideos == {With(v, "view_count", Absent) : v \in CandidatePool}

InitCorrLacking ==
    /\ spotify_tracks \in SeqsUpTo(MatchTracks, MaxTracks) \ {<<>>}
    /\ youtube_videos \in SeqsUpTo(CandidatePool \cup LackingVideos, MaxVideos)
    /\ correlations = <<>> /\ trk = 0 /\ related_videos = PyNone
    /\ NormIdle /\ VideoIdle /\ AggIdle /\ PipeIdle

NextCorrLacking == CorrelateTrack

SpecCorrLacking == InitCorrLacking /\ [][NextCorrLacking]_vars

\* The iteration for one track leaves the Correlations of the earlier tracks
\* as they are and adds a Correlation for every video the Matcher returned,
\* or none.
AllOrNone ==
    trk' = trk + 1 =>
       /\ Len(correlations') >= Len(correlations)
       /\ SubSeq(correlations', 1, Len(correlations)) = correlations
       /\ \/ correlations' = correlations
          \/ /\ ~IsRaise(related_videos')
             /\ Len(correlations') = Len(correlations) + Len(related_videos'.l)

\* C27 as the specification states it: a track contributes all of its
\* Matcher results or none, and the groups of the other tracks are
\* unaffected.  The code appends the Correlations one by one inside the try,
\* so those built before the one that raises stay in the output.
C27_TrackAtomic == [][AllOrNone]_vars

-----------------------------------------------------------------------------
(* Claims about the text of the normalized records, under SpecNorm         *)

\* The field f + "_length" of a record is the number of characters of its
\* text field.
LengthOfField(record, length, text) == record[length] = PyInt(Len(record[text].s))

\* C28 as the specification states it: in every emitted track name_length
\* and artist_name_length are the lengths of the record's cleaned name and
\* artist_name, and in every emitted video title_length and
\* description_length are the lengths of its title and description.  The
\* code takes the two lengths of a track from the raw text.
C28_LengthsOfCleanedText ==
    /\ \A i \in 1..Len(transformed_tracks) :
          /\ LengthOfField(transformed_tracks[i], "name_length", "name")
          /\ LengthOfField(transformed_tracks[i], "artist_name_length", "artist_name")
    /\ \A i \in 1..Len(transformed_videos) :
          /\ LengthOfField(transformed_videos[i], "title_length", "title")
          /\ LengthOfField(transformed_videos[i], "description_length", "description")

-----------------------------------------------------------------------------
(* A directed search followed by normalization and correlation: extraction *)
(* searches YouTube for a raw track's artist_name and name and writes both *)
(* on every video found (extract.py lines 248-249, 268-269, 350-351); both *)
(* records are normalized and handed to the Correlator.                    *)

\* Raw names and artists with leading, trailing and repeated whitespace.
\* A query with an empty artist or track is not sent (extract.py line 251).
QueryNames == Texts({"a", " "}, 3) \ {<<>>}
QueryArtists == {<<"b">>, <<" ", "b">>, <<"b", " ", " ", "c">>}
QueryTracks ==
    {RawMatchTrack(<<"t", "1">>, name, artist, 3000) :
        name \in QueryNames, artist \in QueryArtists}

\* A video the search for the raw track returned.
SearchResult(track, title) ==
    RawMatchVideo(<<"v", "1">>, title, track.artist_name.s, track.name.s,
                  <<"P", "T", "3", "S">>)

\* main.py lines 263-271: the transformed lists are given to
\* correlate_spotify_youtube_data.
RunCorrelation ==
    /\ raw_tracks # <<>> /\ tracks_taken = Len(raw_tracks)
    /\ raw_videos # <<>> /\ videos_taken = Len(raw_videos)
    /\ spotify_tracks = <<>> /\ trk = 0
    /\ spotify_tracks' = transformed_tracks
    /\ youtube_videos' = transformed_videos
    /\ UNCHANGED <<normVars, videoVars, correlations, trk, related_videos, aggVars>>
    /\ UNCHANGED pipeVars

InitSearch ==
    /\ \E t \in QueryTracks, title \in {<<"x", "x">>, <<"b", " ", "a">>} :
          /\ raw_tracks = <<t>>
          /\ raw_videos = <<SearchResult(t, title)>>
    /\ transformed_tracks = <<>> /\ tracks_taken = 0
    /\ transformed_videos = <<>> /\ videos_taken = 0
    /\ youtube_videos = <<>>
    /\ CorrIdle /\ AggIdle /\ PipeIdle

NextSearch ==
    \/ TransformTrackStep
    \/ TransformVideoStep
    \/ RunCorrelation
    \/ CorrelateTrack

SpecSearch == InitSearch /\ [][NextSearch]_vars

\* C29 as the specification states it: once the track and the video found by
\* its directed search are normalized and correlated, the pair is emitted
\* with similarity_score exactly 1.  The code cleans the track's name and
\* artist_name and copies the video's search_artist and search_track as they
\* are, so whitespace that cleaning removes makes the comparison fail.
C29_ExactMatchSurvives ==
    (trk = 1 /\ youtube_videos # <<>>) =>
       /\ Len(correlations) = 1
       /\ correlations[1].similarity_score = PyFloat(1, 1)

-----------------------------------------------------------------------------
(* The result of run_full_pipeline, checked under SpecPipeFair             *)

StageNames == {"extraction", "transformation", "loading"}

\* A stage is run only from the position before it, and a step that runs
\* transformation or loading finds the stage before it reported success.
StageOrder ==
    /\ pipeline_result.stages.transformation # pipeline_result'.stages.transformation
          => /\ pipeline_result.stages.extraction = "success"
             /\ pipeline_result.stages.loading = "pending"
    /\ pipeline_result.stages.loading # pipeline_result'.stages.loading
          => /\ pipeline_result.stages.extraction = "success"
             /\ pipeline_result.stages.transformation = "success"
    /\ \A name \in StageNames :
          pipeline_result.stages[name] # "pending"
             => pipeline_result'.stages[name] = pipeline_result.stages[name]

\* success is set only when the three stages reported success, and a result
\* that is returned after a stage failed has success false, an error and an
\* end_time.
ResultAsStated ==
    /\ pipeline_result.success
          => \A name \in StageNames : pipeline_result.stages[name] = "success"
    /\ stage = "returned" => pipeline_result.end_time # Absent
    /\ (stage = "returned" /\ \E name \in StageNames :
                                 pipeline_result.stages[name] = "failure")
          => /\ ~pipeline_result.success
             /\ pipeline_result.errors # <<>>

\* C30: the stages run in the order extraction, transformation, loading, each
\* only after the one before it reported success; success is true only if
\* all three reported success; and every run, one with a failing stage
\* included, ends by returning a result, which then has success false, a
\* non-empty errors list and an end_time.
C30_PipelineResult ==
    /\ [][StageOrder]_vars
    /\ []ResultAsStated
    /\ <>(stage = "returned")

\* A run that was returned after extraction succeeded and transformation
\* failed: loading never ran.
C30_Witness ==
    /\ stage = "returned"
    /\ pipeline_result.stages.extraction = "success"
    /\ pipeline_result.stages.transformation = "failure"
    /\ pipeline_result.stages.loading = "pending"
    /\ pipeline_result.errors # <<>>

====
